---- MODULE Spec2Model ----
(***************************************************************************)
(* Copy-trading orchestrator (src/bot.rs) with its collaborators: the      *)
(* copy engine's poll (src/trading/copy_engine.rs), the strategy           *)
(* evaluator (src/trading/strategy.rs), the position sizer                 *)
(* (src/trading/position_sizer.rs) and the SQLite store (src/db/mod.rs).   *)
(*                                                                         *)
(* Units: money and sizes are integers in cents (100 = 1 USDC), prices and *)
(* fractions are integers in percent (50 = 0.50), time is in seconds.      *)
(* Decimal/f64 divisions are integer divisions on these units.             *)
(***************************************************************************)
EXTENDS Integers, Sequences, FiniteSets, TLC

\* ---------------------------------------------------------------- bounds
\* Source trades the data API ever returns, over all traders.
MaxTrades == 2
\* Ticks of the run loop over the whole behaviour.
MaxTicks == 2
\* How long ago a trade may have happened when the data API first returns
\* it, in seconds.
StaleTradeSecs == 310
\* Realized P&L an earlier session left in bot_state.total_pnl, cents: a
\* loss beyond max_portfolio_drawdown of the capital, and a gain.
PriorSessionLoss == 25000
PriorSessionGain == 10000

\* ------------------------------------------------------ inputs (small sets)
Traders == {"a1", "a2"}
Markets == {"m1"}
Outcomes == {"Yes"}
Sides == {"Buy", "Sell"}
\* Prices of the source trades, percent.
SourcePrices == {50}
\* Sizes of the source trades, cents.
SourceSizes == {2000}
\* Age of a source trade when the data API first returns it.
TradeAges == {0, StaleTradeSecs}
\* Value of a source trader's open positions (Trader::total_position_value).
SourceValues == {0}
\* What a submitted order comes back as: Ok(success = true), Ok(success =
\* false), Err (a network failure, a timeout, an HTTP error status).
OrderOutcomes == {"filled", "unfilled", "transient"}

\* ------------------------------------------------------ program constants
\* BotConfig::default
PortfolioValue == 100000
PollIntervalSecs == 30
\* StrategyConfig::default
MaxTradeAgeSecs == 300
MinEntryPrice == 5
MaxEntryPrice == 95
MaxEntrySlippage == 3
MinTraderScore == 40
RequireProfitableTrader == TRUE
TakeProfitPct == 25
StopLossPct == 15
MaxHoldingHours == 168
FollowTraderExits == TRUE
ExitBeforeResolutionHours == 24
MaxPortfolioDrawdown == 20
MaxConcurrentPositions == 10
MaxSingleMarketExposure == 25
MinTradeIntervalSecs == 60
LossCooloffSecs == 300
\* TradingConfig::default
MaxPortfolioAllocation == 50
MaxSinglePosition == 10
MinTradeSize == 100
MaxTradeSize == 100000
SizingMethodName == "kelly"
KellyFraction == 25
\* CopyEngine::poll_for_trades asks for the 10 latest trades.
FetchLimit == 10
\* Bot::get_current_price returns the placeholder 0.50.
PlaceholderPrice == 50
\* dec!(1) in the cash and market-exposure rules of validate_entry.
OneUsdc == 100

\* Absent Option values.
NoTime == 0 - 1
NoId == 0 - 1
NoSize == 0 - 1
None == "none"
\* Option<&TraderMetrics>::None
NoMetrics == [present |-> FALSE]

Min(a, b) == IF a <= b THEN a ELSE b
Max(a, b) == IF a >= b THEN a ELSE b
Abs(a) == IF a >= 0 THEN a ELSE 0 - a

RECURSIVE SumSeq(_)
SumSeq(s) == IF s = <<>> THEN 0 ELSE Head(s) + SumSeq(Tail(s))

RECURSIVE SetToSeq(_)
SetToSeq(S) ==
    IF S = {} THEN <<>>
    ELSE LET x == CHOOSE y \in S : TRUE IN <<x>> \o SetToSeq(S \ {x})

RECURSIVE TakeWhileNot(_, _)
\* trades.into_iter().take_while(|t| Some(&t.id) != last_seen_id.as_ref())
TakeWhileNot(trades, last_id) ==
    IF trades = <<>> \/ Head(trades).id = last_id THEN <<>>
    ELSE <<Head(trades)>> \o TakeWhileNot(Tail(trades), last_id)

\* The first n elements of a list (the API's limit parameter).
Take(s, n) == SubSeq(s, 1, Min(Len(s), n))

\* ------------------------------------------------------------ position sizer
\* Metrics the copy engine holds for a tracked trader: add_trader computes
\* them from an all-zero P&L vector, so win_rate, avg_win, avg_loss and
\* max_drawdown are all zero.
EngineMetrics ==
    [present |-> TRUE, win_rate |-> 0, avg_win |-> 0, avg_loss |-> 0,
     max_drawdown |-> 0, score |-> 0, total_pnl |-> 0]

\* SizingMethod::from_str
SizingMethodOf(s) ==
    CASE s = "kelly" -> "Kelly"
      [] s \in {"fixed", "fixed_fraction"} -> "FixedFraction"
      [] s \in {"risk_parity", "riskparity"} -> "RiskParity"
      [] OTHER -> "Equal"

\* PositionSizer::kelly_size.  NoMetrics stands for Option::None.
\* kelly = (p*b - q)/b with b = avg_win/avg_loss, i.e.
\* (p*avg_win - q*avg_loss)/avg_win, p and q in percent.
KellySize(base_size, m, portfolio_value) ==
    IF ~m.present THEN (base_size * 10) \div 100
    ELSE IF m.win_rate < 50 \/ m.avg_loss = 0 THEN 0
    ELSE LET num == m.win_rate * m.avg_win - (100 - m.win_rate) * m.avg_loss
         IN  \* avg_win = 0: b = 0 and kelly = -q/0, -inf for q > 0; for
             \* q = 0 it is NaN, not <= 0, and the conversion to Decimal
             \* falls back on 0.1
             IF m.avg_win = 0
             THEN IF m.win_rate = 100
                  THEN Min((portfolio_value * 10) \div 100, base_size)
                  ELSE 0
             ELSE IF num <= 0 THEN 0
             ELSE LET \* kelly, adjusted_kelly and final_kelly in basis points
                      kelly == (num * 100) \div m.avg_win
                      adjusted_kelly == (kelly * KellyFraction) \div 100
                      penalty == 100 - Min(m.max_drawdown, 90)
                      final_kelly == (adjusted_kelly * penalty) \div 100
                      kelly_size == (portfolio_value * final_kelly) \div 10000
                  IN  Min(kelly_size, base_size)

\* PositionSizer::fixed_fraction_size
FixedFractionSize(portfolio_value) ==
    (portfolio_value * MaxSinglePosition) \div 100

\* PositionSizer::risk_parity_size
RiskParitySize(base_size, m, portfolio_value) ==
    IF ~m.present THEN (base_size * 50) \div 100
    ELSE LET volatility == Max(m.max_drawdown, 10)
             \* target_vol / volatility, capped at 2.0, in percent
             mult == Min((10 * 100) \div volatility, 200)
         IN  Min((portfolio_value * MaxSinglePosition * mult) \div (100 * 100),
                 base_size)

\* An apply_constraints without its final check against min_trade_size.
ApplyConstraintsUnchecked(size, portfolio_value, current_exposure) ==
    LET s1 == Min(Max(size, MinTradeSize), MaxTradeSize)
        max_position == (portfolio_value * MaxSinglePosition) \div 100
        s2 == Min(s1, max_position)
        max_total == (portfolio_value * MaxPortfolioAllocation) \div 100
        remaining_capacity == max_total - current_exposure
    IN  IF remaining_capacity <= 0 THEN 0
        ELSE Min(s2, remaining_capacity)

\* PositionSizer::apply_constraints
ApplyConstraints(size, portfolio_value, current_exposure) ==
    LET s1 == Min(Max(size, MinTradeSize), MaxTradeSize)
        max_position == (portfolio_value * MaxSinglePosition) \div 100
        s2 == Min(s1, max_position)
        max_total == (portfolio_value * MaxPortfolioAllocation) \div 100
        remaining_capacity == max_total - current_exposure
        s3 == Min(s2, remaining_capacity)
    IN  IF remaining_capacity <= 0 THEN 0
        ELSE IF s3 < MinTradeSize THEN 0
        ELSE s3

\* PositionSizer::calculate_size
CalculateSize(source_trade_size, source_portfolio_value, our_portfolio_value, trader_metrics, current_exposure) ==
    LET raw_size ==
            IF source_portfolio_value > 0
            THEN (source_trade_size * our_portfolio_value)
                     \div source_portfolio_value
            ELSE source_trade_size
        method == SizingMethodOf(SizingMethodName)
        sized ==
            CASE method = "Kelly" ->
                     KellySize(raw_size, trader_metrics, our_portfolio_value)
              [] method = "FixedFraction" ->
                     FixedFractionSize(our_portfolio_value)
              [] method = "RiskParity" ->
                     RiskParitySize(raw_size, trader_metrics, our_portfolio_value)
              [] OTHER -> raw_size
    IN  ApplyConstraints(sized, our_portfolio_value, current_exposure)

\* ------------------------------------------------------------------ strategy
Allow(size) ==
    [allowed |-> TRUE, reason |-> "Entry conditions met", adjusted_size |-> size]

Deny(reason) ==
    [allowed |-> FALSE, reason |-> reason, adjusted_size |-> NoSize]

\* Strategy::check_portfolio_constraints; a result with reason None stands
\* for the Option::None the function returns when no constraint applies.
\* current_drawdown is in basis points.
CheckPortfolioConstraints(portfolio, proposed_size) ==
    IF portfolio.current_drawdown >= MaxPortfolioDrawdown * 100
    THEN Deny("Portfolio drawdown too high")
    ELSE IF portfolio.position_count >= MaxConcurrentPositions
    THEN Deny("Too many positions")
    ELSE IF proposed_size > portfolio.cash_available
    THEN IF portfolio.cash_available < OneUsdc
         THEN Deny("Insufficient cash")
         ELSE Allow(portfolio.cash_available)
    ELSE [allowed |-> TRUE, reason |-> None, adjusted_size |-> NoSize]

\* A validate_entry that clamps to the market cap itself, without the
\* exposure already in the market.
ValidateEntryCapAsSize(source_trade_time, current_price, source_price, proposed_size, trader_metrics, portfolio, market_positions, reference_time, utc_now) ==
    LET now_ == IF reference_time = NoTime THEN utc_now ELSE reference_time
        trade_age == now_ - source_trade_time
        \* |current - source| / source > max_entry_slippage
        slippage_high ==
            /\ source_price > 0
            /\ Abs(current_price - source_price) * 100
                   > MaxEntrySlippage * source_price
        constraints == CheckPortfolioConstraints(portfolio, proposed_size)
        market_exposure ==
            SumSeq([i \in 1..Len(market_positions) |-> market_positions[i].size])
        max_market == (portfolio.total_value * MaxSingleMarketExposure) \div 100
        allowed_size == Max(max_market - market_exposure, 0)
    IN  IF trade_age > MaxTradeAgeSecs THEN Deny("Trade too old")
        ELSE IF current_price < MinEntryPrice THEN Deny("Price too low")
        ELSE IF current_price > MaxEntryPrice THEN Deny("Price too high")
        ELSE IF slippage_high THEN Deny("Slippage too high")
        ELSE IF trader_metrics.present /\ trader_metrics.score < MinTraderScore
        THEN Deny("Trader score too low")
        ELSE IF /\ trader_metrics.present
                /\ RequireProfitableTrader
                /\ trader_metrics.total_pnl <= 0
        THEN Deny("Trader not profitable overall")
        ELSE IF constraints.reason # None THEN constraints
        ELSE IF market_exposure + proposed_size > max_market
        THEN IF allowed_size < OneUsdc
             THEN Deny("Market exposure limit")
             ELSE Allow(max_market)
        ELSE IF /\ portfolio.last_trade_at # NoTime
                /\ utc_now - portfolio.last_trade_at < MinTradeIntervalSecs
        THEN Deny("Too soon after last trade")
        ELSE IF /\ portfolio.last_loss_at # NoTime
                /\ utc_now - portfolio.last_loss_at < LossCooloffSecs
        THEN Deny("In loss cool-off period")
        ELSE Allow(proposed_size)

\* Strategy::validate_entry.  reference_time = NoTime stands for None (the
\* orchestrator's call); utc_now is the value of Utc::now().
ValidateEntry(source_trade_time, current_price, source_price, proposed_size, trader_metrics, portfolio, market_positions, reference_time, utc_now) ==
    LET now_ == IF reference_time = NoTime THEN utc_now ELSE reference_time
        trade_age == now_ - source_trade_time
        \* |current - source| / source > max_entry_slippage
        slippage_high ==
            /\ source_price > 0
            /\ Abs(current_price - source_price) * 100
                   > MaxEntrySlippage * source_price
        constraints == CheckPortfolioConstraints(portfolio, proposed_size)
        market_exposure ==
            SumSeq([i \in 1..Len(market_positions) |-> market_positions[i].size])
        max_market == (portfolio.total_value * MaxSingleMarketExposure) \div 100
        allowed_size == Max(max_market - market_exposure, 0)
    IN  IF trade_age > MaxTradeAgeSecs THEN Deny("Trade too old")
        ELSE IF current_price < MinEntryPrice THEN Deny("Price too low")
        ELSE IF current_price > MaxEntryPrice THEN Deny("Price too high")
        ELSE IF slippage_high THEN Deny("Slippage too high")
        ELSE IF trader_metrics.present /\ trader_metrics.score < MinTraderScore
        THEN Deny("Trader score too low")
        ELSE IF /\ trader_metrics.present
                /\ RequireProfitableTrader
                /\ trader_metrics.total_pnl <= 0
        THEN Deny("Trader not profitable overall")
        ELSE IF constraints.reason # None THEN constraints
        ELSE IF market_exposure + proposed_size > max_market
        THEN IF allowed_size < OneUsdc
             THEN Deny("Market exposure limit")
             ELSE Allow(allowed_size)
        ELSE IF /\ portfolio.last_trade_at # NoTime
                /\ utc_now - portfolio.last_trade_at < MinTradeIntervalSecs
        THEN Deny("Too soon after last trade")
        ELSE IF /\ portfolio.last_loss_at # NoTime
                /\ utc_now - portfolio.last_loss_at < LossCooloffSecs
        THEN Deny("In loss cool-off period")
        ELSE Allow(proposed_size)

\* StrategyPosition::return_pct >= pct / 100, without the division:
\* (current - entry) / entry >= pct / 100, and 0 when entry is zero.
ReturnAtLeast(position, pct) ==
    IF position.entry_price = 0 THEN 0 >= pct
    ELSE (position.current_price - position.entry_price) * 100
             >= pct * position.entry_price

ReturnAtMost(position, pct) ==
    IF position.entry_price = 0 THEN 0 <= pct
    ELSE (position.current_price - position.entry_price) * 100
             <= pct * position.entry_price

\* A check_exit that looks at the holding period before the return.
CheckExitHoldingFirst(position, portfolio, trader_still_holding, resolution_time, utc_now) ==
    LET holding_hours == (utc_now - position.opened_at) \div 3600
        hours_to_resolution == (resolution_time - utc_now) \div 3600
    IN  IF holding_hours >= MaxHoldingHours
        THEN [should_exit |-> TRUE, reason |-> "MaxHoldingPeriod",
              urgency |-> "Normal"]
        ELSE IF ReturnAtLeast(position, TakeProfitPct)
        THEN [should_exit |-> TRUE, reason |-> "TakeProfit", urgency |-> "Normal"]
        ELSE IF ReturnAtMost(position, 0 - StopLossPct)
        THEN [should_exit |-> TRUE, reason |-> "StopLoss", urgency |-> "Immediate"]
        ELSE IF FollowTraderExits /\ ~trader_still_holding
        THEN [should_exit |-> TRUE, reason |-> "TraderExited", urgency |-> "Normal"]
        ELSE IF /\ resolution_time # NoTime
                /\ hours_to_resolution <= ExitBeforeResolutionHours
                /\ hours_to_resolution > 0
        THEN [should_exit |-> TRUE, reason |-> "MarketResolution",
              urgency |-> "Normal"]
        ELSE IF portfolio.current_drawdown >= MaxPortfolioDrawdown * 100
        THEN [should_exit |-> TRUE, reason |-> "PortfolioRisk",
              urgency |-> "Immediate"]
        ELSE [should_exit |-> FALSE, reason |-> "None", urgency |-> "None"]

\* Strategy::check_exit.  resolution_time = NoTime stands for None.
CheckExit(position, portfolio, trader_still_holding, resolution_time, utc_now) ==
    LET holding_hours == (utc_now - position.opened_at) \div 3600
        hours_to_resolution == (resolution_time - utc_now) \div 3600
    IN  IF ReturnAtLeast(position, TakeProfitPct)
        THEN [should_exit |-> TRUE, reason |-> "TakeProfit", urgency |-> "Normal"]
        ELSE IF ReturnAtMost(position, 0 - StopLossPct)
        THEN [should_exit |-> TRUE, reason |-> "StopLoss", urgency |-> "Immediate"]
        ELSE IF holding_hours >= MaxHoldingHours
        THEN [should_exit |-> TRUE, reason |-> "MaxHoldingPeriod",
              urgency |-> "Normal"]
        ELSE IF FollowTraderExits /\ ~trader_still_holding
        THEN [should_exit |-> TRUE, reason |-> "TraderExited", urgency |-> "Normal"]
        ELSE IF /\ resolution_time # NoTime
                /\ hours_to_resolution <= ExitBeforeResolutionHours
                /\ hours_to_resolution > 0
        THEN [should_exit |-> TRUE, reason |-> "MarketResolution",
              urgency |-> "Normal"]
        ELSE IF portfolio.current_drawdown >= MaxPortfolioDrawdown * 100
        THEN [should_exit |-> TRUE, reason |-> "PortfolioRisk",
              urgency |-> "Immediate"]
        ELSE [should_exit |-> FALSE, reason |-> "None", urgency |-> "None"]

\* Strategy::should_halt_trading
ShouldHaltTrading(portfolio) ==
    portfolio.current_drawdown >= MaxPortfolioDrawdown * 100

\* --------------------------------------------------------------------- state
VARIABLES
    now,               \* Utc::now(), seconds
    dry_run,           \* BotConfig::dry_run
    feed,              \* per trader, the data API's trade list, newest first
    orders,            \* the exchange: every order submission, in order
    saves,             \* the trade_id of every update_position_after_trade
    \* the store (src/db/mod.rs)
    seen_trades,       \* table seen_trades: the set of trade_id
    copy_trades,       \* table copy_trades, in insertion order; id = index
    positions,         \* table positions, by (market_id, outcome, side)
    bot_state,         \* table bot_state, its single row
    equity_last,       \* table equity_curve, its newest row
    \* the process (Bot and CopyEngine fields, locals of the running tick)
    last_seen_trades,  \* CopyEngine::last_seen_trades
    cash_available, total_exposure, unrealized_pnl, realized_pnl,
    peak_equity, last_trade_at, last_loss_at,
    pc,                \* where the run loop stands
    exitq,             \* check_exits: exits still to carry out
    intents,           \* tick: intents still to process
    cur,               \* process_trade_intent / check_exits: locals
    shutdown,          \* Bot::shutdown, the AtomicBool the ctrl-c task sets
    \* a call of a pure function of the strategy: its arguments and result
    call

db == <<seen_trades, copy_trades, positions, bot_state, equity_last>>
mem == <<last_seen_trades, cash_available, total_exposure, unrealized_pnl,
         realized_pnl, peak_equity, last_trade_at, last_loss_at>>
ctl == <<pc, exitq, intents, cur>>
env == <<now, dry_run, feed, orders, saves>>
aux == <<shutdown, call>>
vars == <<env, db, mem, ctl, aux>>

PosKeys == Markets \X Outcomes \X Sides

NoPosition ==
    [present |-> FALSE, market_id |-> None, outcome |-> None, side |-> None,
     size |-> 0, entry_price |-> 0, current_price |-> 0, unrealized_pnl |-> 0,
     source_trader |-> None, opened_at |-> NoTime, closed_at |-> NoTime]

NoCur == [copy_trade_id |-> NoId, size |-> 0, result |-> None]

\* No call of a strategy function is under way.
NoCall == [fn |-> None]

\* The condition of the while loop of Bot::run, read when a tick has
\* returned: on to the next wait for the timer, or out of the loop.
LoopTop == IF shutdown THEN "stopping" ELSE "idle"

\* The trade_id of process_trade_intent:
\* format!("{}-{}-{}", trader_address, market_id, timestamp)
TradeId(trade) == <<trade.trader_address, trade.market_id, trade.timestamp>>

\* ----------------------------------------------------------------- the store
\* A has_seen_trade that finds no row, whatever the table holds.
NeverSeen(seen, trade_id) == FALSE

\* A mark_trade_seen that inserts nothing.
MarkNothing(seen, trade_id) == seen

\* Database::has_seen_trade
HasSeenTrade(seen, trade_id) == trade_id \in seen

\* Database::mark_trade_seen (INSERT OR IGNORE)
MarkTradeSeen(seen, trade_id) == seen \cup {trade_id}

\* Database::save_position: insert, or on a conflict on (market_id, outcome,
\* side) add the size and average the entry price; closed_at, source_trader
\* and opened_at of an existing row are left as they are.  A new row has the
\* column defaults current_price = 0 and unrealized_pnl = 0.
SavePosition(pos, market_id, outcome, side, size, entry_price, source_trader, t) ==
    LET key == <<market_id, outcome, side>>
        old == pos[key]
    IN  IF old.present
        THEN [pos EXCEPT
                 ![key].size = old.size + size,
                 ![key].entry_price =
                     (old.entry_price * old.size + entry_price * size)
                         \div (old.size + size)]
        ELSE [pos EXCEPT ![key] =
                 [present |-> TRUE, market_id |-> market_id,
                  outcome |-> outcome, side |-> side, size |-> size,
                  entry_price |-> entry_price, current_price |-> 0,
                  unrealized_pnl |-> 0, source_trader |-> source_trader,
                  opened_at |-> t, closed_at |-> NoTime]]

\* Database::get_open_positions: closed_at IS NULL AND size > 0.0001
IsOpen(row) == row.present /\ row.closed_at = NoTime /\ row.size > 0

OpenKeys(pos) == {k \in PosKeys : IsOpen(pos[k])}

GetOpenPositions(pos) ==
    LET keys == SetToSeq(OpenKeys(pos))
    IN  [i \in 1..Len(keys) |-> pos[keys[i]]]

\* Database::update_position_price: every row of (market_id, outcome) that is
\* not closed, whatever its side.
UpdatePositionPrice(pos, market_id, outcome, current_price) ==
    [k \in PosKeys |->
        IF /\ pos[k].present
           /\ pos[k].market_id = market_id
           /\ pos[k].outcome = outcome
           /\ pos[k].closed_at = NoTime
        THEN [pos[k] EXCEPT
                 !.current_price = current_price,
                 !.unrealized_pnl =
                     ((current_price - pos[k].entry_price) * pos[k].size) \div 100]
        ELSE pos[k]]

\* Database::close_position: every row of (market_id, outcome), whatever its
\* side and whether or not it is closed already.
ClosePosition(pos, market_id, outcome, t) ==
    [k \in PosKeys |->
        IF /\ pos[k].present
           /\ pos[k].market_id = market_id
           /\ pos[k].outcome = outcome
        THEN [pos[k] EXCEPT !.closed_at = t]
        ELSE pos[k]]

\* Database::save_copy_trade: a new row, status 'pending'.  The id is the
\* fresh uuid of the caller, here the row's index.
SaveCopyTrade(ct, source_trader, source_trade_id, market_id, side, outcome, our_size) ==
    Append(ct,
        [id |-> Len(ct) + 1, source_trader |-> source_trader,
         source_trade_id |-> source_trade_id, market_id |-> market_id,
         side |-> side, outcome |-> outcome, our_size |-> our_size,
         our_price |-> NoSize, status |-> "pending", order_id |-> NoId,
         tx_hash |-> NoId, error_message |-> None, executed_at |-> NoTime])

\* Database::update_copy_trade_status: COALESCE keeps the old order_id,
\* our_price and tx_hash when none is given; error_message is overwritten;
\* executed_at is stamped for 'executed' only.
UpdateCopyTradeStatus(ct, id, status, order_id, our_price, tx_hash, error, t) ==
    [i \in 1..Len(ct) |->
        IF ct[i].id = id
        THEN [ct[i] EXCEPT
                 !.status = status,
                 !.order_id = IF order_id # NoId THEN order_id ELSE @,
                 !.our_price = IF our_price # NoSize THEN our_price ELSE @,
                 !.tx_hash = IF tx_hash # NoId THEN tx_hash ELSE @,
                 !.error_message = error,
                 !.executed_at = IF status = "executed" THEN t ELSE @]
        ELSE ct[i]]

\* Database::get_pending_copy_trades
GetPendingCopyTrades(ct) ==
    SelectSeq(ct, LAMBDA r : r.status = "pending")

\* Database::get_copy_trade_stats: (total, executed, failed)
GetCopyTradeStats(ct) ==
    <<Len(ct),
      Len(SelectSeq(ct, LAMBDA r : r.status = "executed")),
      Len(SelectSeq(ct, LAMBDA r : r.status = "failed"))>>

\* ------------------------------------------------------------- the process
\* Bot::build_portfolio_state; current_drawdown in basis points.
BuildPortfolioState ==
    LET current_equity == PortfolioValue + realized_pnl + unrealized_pnl
        drawdown ==
            IF peak_equity > 0
            THEN (Max(peak_equity - current_equity, 0) * 10000) \div peak_equity
            ELSE 0
    IN  [total_value |-> PortfolioValue,
         cash_available |-> cash_available,
         total_exposure |-> total_exposure,
         unrealized_pnl |-> unrealized_pnl,
         realized_pnl |-> realized_pnl,
         current_drawdown |-> drawdown,
         position_count |-> Cardinality(OpenKeys(positions)),
         last_trade_at |-> last_trade_at,
         last_loss_at |-> last_loss_at]

\* Bot::get_current_price
GetCurrentPrice(market_id, outcome) == PlaceholderPrice

\* Bot::get_market_positions
GetMarketPositions(pos, market_id) ==
    SelectSeq(GetOpenPositions(pos), LAMBDA p : p.market_id = market_id)

\* Sum of size * current_price over the open positions.
ExposureOf(pos) ==
    LET open == GetOpenPositions(pos)
    IN  SumSeq([i \in 1..Len(open) |->
                   (open[i].size * open[i].current_price) \div 100])

\* Sum of (current_price - entry_price) * size over the open positions.
UnrealizedOf(pos) ==
    LET open == GetOpenPositions(pos)
    IN  SumSeq([i \in 1..Len(open) |->
                   ((open[i].current_price - open[i].entry_price)
                        * open[i].size) \div 100])

RECURSIVE RefreshPrices(_, _)
\* The first loop of Bot::update_positions.
RefreshPrices(pos, open) ==
    IF open = <<>> THEN pos
    ELSE RefreshPrices(
             UpdatePositionPrice(pos, Head(open).market_id, Head(open).outcome,
                 GetCurrentPrice(Head(open).market_id, Head(open).outcome)),
             Tail(open))

\* Strategy::evaluate_exits with the empty trader_holdings map check_exits
\* passes: a position with a source trader counts as no longer held.
EvaluateExits(open, portfolio, t) ==
    SelectSeq(open, LAMBDA p :
        CheckExit(p, portfolio, p.source_trader = None, NoTime, t).should_exit)

\* ------------------------------------------------------------ the copy engine
\* The orders in which poll_for_trades may walk its HashMap of traders.
TraderOrders ==
    {o \in [1..Cardinality(Traders) -> Traders] :
        \A i, j \in 1..Cardinality(Traders) : i # j => o[i] # o[j]}

\* DataClient::get_trades(address, Some(10), None), then the take_while of
\* poll_for_trades: the trades in front of the last seen one, newest first.
NewTrades(address) ==
    TakeWhileNot(Take(feed[address], FetchLimit), last_seen_trades[address])

\* The intents poll_for_trades makes of one trader's new trades, in the
\* order of the list; a trade sized 0 makes none.  The engine's own
\* current_exposure is never written and stays 0.
IntentsOf(address, source_value) ==
    LET new_trades == NewTrades(address)
        sized == [i \in 1..Len(new_trades) |->
                     [source_trader |-> address,
                      source_trade |-> new_trades[i],
                      calculated_size |->
                          CalculateSize(new_trades[i].amount_usdc, source_value,
                                        PortfolioValue, EngineMetrics, 0),
                      created_at |-> now]]
    IN  SelectSeq(sized, LAMBDA it : it.calculated_size > 0)

RECURSIVE PollIntents(_, _)
\* CopyEngine::poll_for_trades: the intents, trader after trader.
PollIntents(order, source_value) ==
    IF order = <<>> THEN <<>>
    ELSE IntentsOf(Head(order), source_value)
             \o PollIntents(Tail(order), source_value)

\* The last_seen_trades map after the poll.
PollLastSeen ==
    [a \in Traders |->
        IF NewTrades(a) # <<>> THEN Head(NewTrades(a)).id
        ELSE last_seen_trades[a]]

\* ---------------------------------------------------------------- behaviour
TotalTrades == SumSeq([i \in 1..Len(SetToSeq(Traders)) |->
                          Len(feed[SetToSeq(Traders)[i]])])

\* CopyEngine::add_trader for every tracked trader: the newest trade of the
\* list get_trades returns is remembered, an empty list leaves no entry.
\* `listed` are the traders whose list the data API returns in full.
InitialLastSeen(listed) ==
    [a \in Traders |->
        IF a \in listed /\ feed[a] # <<>> THEN Head(feed[a]).id ELSE NoId]

Init ==
    /\ now = 0
    /\ dry_run \in BOOLEAN
    /\ feed = [a \in Traders |-> <<>>]
    /\ orders = <<>>
    /\ saves = <<>>
    /\ seen_trades = {}
    /\ copy_trades = <<>>
    /\ positions = [k \in PosKeys |-> NoPosition]
    /\ bot_state = [current_exposure |-> 0, total_pnl |-> 0, total_trades |-> 0,
                    is_running |-> TRUE]
    /\ equity_last = [portfolio_value |-> 0, exposure |-> 0,
                      unrealized_pnl |-> 0, realized_pnl |-> 0]
    /\ last_seen_trades = [a \in Traders |-> NoId]
    /\ cash_available = PortfolioValue
    /\ total_exposure = 0
    /\ unrealized_pnl = 0
    /\ realized_pnl = 0
    /\ peak_equity = PortfolioValue
    /\ last_trade_at = NoTime
    /\ last_loss_at = NoTime
    /\ pc = "idle"
    /\ exitq = <<>>
    /\ intents = <<>>
    /\ cur = NoCur
    /\ shutdown = FALSE
    /\ call = NoCall

\* The trade the earlier session copied, of a trader no longer tracked.
PriorTradeId == <<"a0", "m1", NoTime>>

PriorSessionPnl == {0 - PriorSessionLoss, PriorSessionGain}

\* The process is started on the database of an earlier session that copied
\* one trade and closed its position: bot_state as update_bot_state left it,
\* the executed copy_trades row, its seen_trades row; Bot::new and
\* Bot::initialize restore realized_pnl from bot_state.total_pnl because
\* total_trades > 0, and nothing else.
PriorInit ==
    /\ now = 0
    /\ dry_run \in BOOLEAN
    /\ feed = [a \in Traders |-> <<>>]
    /\ orders = <<>>
    /\ saves = <<>>
    /\ seen_trades = {PriorTradeId}
    /\ copy_trades =
           <<[id |-> 1, source_trader |-> "a0",
              source_trade_id |-> PriorTradeId, market_id |-> "m1",
              side |-> "Buy", outcome |-> "Yes", our_size |-> MinTradeSize,
              our_price |-> PlaceholderPrice, status |-> "executed",
              order_id |-> NoId, tx_hash |-> NoId, error_message |-> None,
              executed_at |-> 0 - PollIntervalSecs]>>
    /\ positions = [k \in PosKeys |-> NoPosition]
    /\ \E pnl \in PriorSessionPnl :
           /\ bot_state = [current_exposure |-> 0, total_pnl |-> pnl,
                           total_trades |-> 1, is_running |-> TRUE]
           /\ equity_last = [portfolio_value |-> PortfolioValue + pnl,
                             exposure |-> 0, unrealized_pnl |-> 0,
                             realized_pnl |-> pnl]
           /\ realized_pnl = pnl
    /\ last_seen_trades = [a \in Traders |-> NoId]
    /\ cash_available = PortfolioValue
    /\ total_exposure = 0
    /\ unrealized_pnl = 0
    /\ peak_equity = PortfolioValue
    /\ last_trade_at = NoTime
    /\ last_loss_at = NoTime
    /\ pc = "idle"
    /\ exitq = <<>>
    /\ intents = <<>>
    /\ cur = NoCur
    /\ shutdown = FALSE
    /\ call = NoCall

\* A tracked trader trades: the data API returns one more trade, in front.
SourceTrade(a, m, o, side, price, size, age) ==
    /\ pc = "idle"
    /\ TotalTrades < MaxTrades
    /\ feed' = [feed EXCEPT ![a] =
           <<[id |-> TotalTrades + 1, trader_address |-> a, market_id |-> m,
              outcome |-> o, side |-> side, size |-> size, price |-> price,
              amount_usdc |-> (size * price) \div 100,
              timestamp |-> now - age]>>
           \o @]
    /\ UNCHANGED <<now, dry_run, orders, saves, db, mem, ctl>>
    /\ UNCHANGED aux

\* Bot::tick, up to the loop of check_exits: the timer fires poll_interval
\* after the last tick; halt check, update_positions, then the exits to
\* carry out.
TickStart ==
    /\ pc = "idle"
    /\ (now < MaxTicks * PollIntervalSecs \/ shutdown)
    /\ now' = now + PollIntervalSecs
    /\ IF ShouldHaltTrading(BuildPortfolioState)
       THEN /\ pc' = LoopTop
            /\ UNCHANGED <<db, mem, exitq, intents, cur>>
       ELSE LET refreshed == RefreshPrices(positions, GetOpenPositions(positions))
                exposure == ExposureOf(refreshed)
                unrealized == UnrealizedOf(refreshed)
                cash == PortfolioValue - exposure + realized_pnl
                current_equity == PortfolioValue + realized_pnl + unrealized
                portfolio ==
                    [total_value |-> PortfolioValue,
                     cash_available |-> cash,
                     total_exposure |-> exposure,
                     unrealized_pnl |-> unrealized,
                     realized_pnl |-> realized_pnl,
                     current_drawdown |->
                         IF peak_equity > 0
                         THEN (Max(peak_equity - current_equity, 0) * 10000)
                                  \div peak_equity
                         ELSE 0,
                     position_count |-> Cardinality(OpenKeys(refreshed)),
                     last_trade_at |-> last_trade_at,
                     last_loss_at |-> last_loss_at]
            IN  /\ positions' = refreshed
                /\ total_exposure' = exposure
                /\ unrealized_pnl' = unrealized
                /\ cash_available' = cash
                /\ exitq' = EvaluateExits(GetOpenPositions(refreshed), portfolio,
                                          now')
                /\ pc' = "exits"
                /\ UNCHANGED <<seen_trades, copy_trades, bot_state, equity_last,
                               last_seen_trades, realized_pnl, peak_equity,
                               last_trade_at, last_loss_at, intents, cur>>
    /\ UNCHANGED <<dry_run, feed, orders, saves, shutdown>>
    /\ UNCHANGED call

\* The tail of one round of the check_exits loop: realized P&L, the loss
\* timer, close_position.
CloseExited(pos) ==
    /\ realized_pnl' = realized_pnl + pos.unrealized_pnl
    /\ last_loss_at' = IF pos.unrealized_pnl < 0 THEN now ELSE last_loss_at
    /\ positions' = ClosePosition(positions, pos.market_id, pos.outcome, now)
    /\ exitq' = Tail(exitq)
    /\ pc' = "exits"
    /\ cur' = NoCur

\* check_exits in dry-run mode: one position, exited without an order.
ExitDryRun ==
    /\ pc = "exits"
    /\ exitq # <<>>
    /\ dry_run
    /\ CloseExited(Head(exitq))
    /\ UNCHANGED <<env, seen_trades, copy_trades, bot_state, equity_last,
                   last_seen_trades, cash_available, total_exposure,
                   unrealized_pnl, peak_equity, last_trade_at, intents>>
    /\ UNCHANGED aux

\* check_exits in live mode: execute_trade of the opposite side; an Err skips
\* the position (continue), an Ok goes on to close it.
ExitSubmit(outcome) ==
    /\ pc = "exits"
    /\ exitq # <<>>
    /\ ~dry_run
    /\ LET pos == Head(exitq)
       IN  orders' = Append(orders,
               [kind |-> "exit", trade_id |-> <<None, pos.market_id, 0>>,
                market_id |-> pos.market_id, outcome |-> pos.outcome,
                side |-> IF pos.side = "Buy" THEN "Sell" ELSE "Buy",
                size |-> pos.size, result |-> outcome])
    /\ IF outcome \in {"filled", "unfilled"}
       THEN /\ pc' = "exit_close"
            /\ exitq' = exitq
       ELSE /\ pc' = "exits"
            /\ exitq' = Tail(exitq)
    /\ UNCHANGED <<now, dry_run, feed, saves, db, mem, intents, cur>>
    /\ UNCHANGED aux

ExitClose ==
    /\ pc = "exit_close"
    /\ CloseExited(Head(exitq))
    /\ UNCHANGED <<env, seen_trades, copy_trades, bot_state, equity_last,
                   last_seen_trades, cash_available, total_exposure,
                   unrealized_pnl, peak_equity, last_trade_at, intents>>
    /\ UNCHANGED aux

\* CopyEngine::poll_for_trades, once check_exits is through.
Poll(order, source_value) ==
    /\ pc = "exits"
    /\ exitq = <<>>
    /\ intents' = PollIntents(order, source_value)
    /\ last_seen_trades' = PollLastSeen
    /\ pc' = "intents"
    /\ UNCHANGED <<env, db, cash_available, total_exposure, unrealized_pnl,
                   realized_pnl, peak_equity, last_trade_at, last_loss_at,
                   exitq, cur>>
    /\ UNCHANGED aux

\* CopyEngine::poll_for_trades when get_trades fails for the k-th trader of
\* the walk: the `?` returns the error, the intents made so far are dropped
\* with the local vector while the last_seen entries written for the traders
\* before stay; Bot::tick returns the error and Bot::run goes on to the next
\* tick.
PollFails(order, k) ==
    /\ pc = "exits"
    /\ exitq = <<>>
    /\ intents' = <<>>
    /\ last_seen_trades' =
           [a \in Traders |->
               IF \E i \in 1..(k - 1) : order[i] = a
               THEN PollLastSeen[a] ELSE last_seen_trades[a]]
    /\ pc' = LoopTop
    /\ UNCHANGED <<env, db, cash_available, total_exposure, unrealized_pnl,
                   realized_pnl, peak_equity, last_trade_at, last_loss_at,
                   exitq, cur>>
    /\ UNCHANGED aux

\* process_trade_intent's call of validate_entry: the current price, the
\* portfolio and the market's positions as they are now, no trader metrics,
\* no reference time.
ValidateIntent(intent) ==
    ValidateEntry(intent.source_trade.timestamp,
                  GetCurrentPrice(intent.source_trade.market_id,
                                  intent.source_trade.outcome),
                  intent.source_trade.price,
                  intent.calculated_size,
                  NoMetrics,
                  BuildPortfolioState,
                  GetMarketPositions(positions, intent.source_trade.market_id),
                  NoTime,
                  now)

\* process_trade_intent returns: tick goes on with the next intent.
NextIntent ==
    /\ intents' = Tail(intents)
    /\ pc' = "intents"
    /\ cur' = NoCur

\* process_trade_intent, a trade_id already in seen_trades: skipped.
PtiSkipSeen ==
    /\ pc = "intents"
    /\ intents # <<>>
    /\ HasSeenTrade(seen_trades, TradeId(Head(intents).source_trade))
    /\ NextIntent
    /\ UNCHANGED <<env, db, mem, exitq>>
    /\ UNCHANGED aux

\* A denial that returns without mark_trade_seen.
PtiRejectUnmarked ==
    /\ pc = "intents"
    /\ intents # <<>>
    /\ ~HasSeenTrade(seen_trades, TradeId(Head(intents).source_trade))
    /\ ~ValidateIntent(Head(intents)).allowed
    /\ NextIntent
    /\ UNCHANGED <<env, db, mem, exitq>>
    /\ UNCHANGED aux

\* process_trade_intent, validate_entry denies: mark_trade_seen and return.
PtiReject ==
    /\ pc = "intents"
    /\ intents # <<>>
    /\ ~HasSeenTrade(seen_trades, TradeId(Head(intents).source_trade))
    /\ ~ValidateIntent(Head(intents)).allowed
    /\ seen_trades' =
           MarkTradeSeen(seen_trades, TradeId(Head(intents).source_trade))
    /\ NextIntent
    /\ UNCHANGED <<env, copy_trades, positions, bot_state, equity_last, mem,
                   exitq>>
    /\ UNCHANGED aux

\* process_trade_intent, validate_entry allows: save_copy_trade.
PtiSave ==
    /\ pc = "intents"
    /\ intents # <<>>
    /\ ~HasSeenTrade(seen_trades, TradeId(Head(intents).source_trade))
    /\ LET intent == Head(intents)
           trade == intent.source_trade
           validation == ValidateIntent(intent)
           size == IF validation.adjusted_size # NoSize
                   THEN validation.adjusted_size
                   ELSE intent.calculated_size
       IN  /\ validation.allowed
           /\ copy_trades' =
                  SaveCopyTrade(copy_trades, intent.source_trader, TradeId(trade),
                                trade.market_id, trade.side, trade.outcome, size)
           /\ cur' = [copy_trade_id |-> Len(copy_trades) + 1, size |-> size,
                      result |-> None]
    /\ pc' = "mark"
    /\ UNCHANGED <<env, seen_trades, positions, bot_state, equity_last, mem,
                   exitq, intents>>
    /\ UNCHANGED aux

\* process_trade_intent: mark_trade_seen, before the execution.
PtiMarkSeen ==
    /\ pc = "mark"
    /\ seen_trades' =
           MarkTradeSeen(seen_trades, TradeId(Head(intents).source_trade))
    /\ pc' = "exec"
    /\ UNCHANGED <<env, copy_trades, positions, bot_state, equity_last, mem,
                   exitq, intents, cur>>
    /\ UNCHANGED aux

\* process_trade_intent in dry-run mode: the row becomes 'simulated'.
PtiSimulate ==
    /\ pc = "exec"
    /\ dry_run
    /\ copy_trades' =
           UpdateCopyTradeStatus(copy_trades, cur.copy_trade_id, "simulated",
               NoId,
               GetCurrentPrice(Head(intents).source_trade.market_id,
                               Head(intents).source_trade.outcome),
               NoId, None, now)
    /\ pc' = "position"
    /\ UNCHANGED <<env, seen_trades, positions, bot_state, equity_last, mem,
                   exitq, intents, cur>>
    /\ UNCHANGED aux

\* Bot::execute_trade in live mode: clob.market_order, called once; what
\* comes back is kept in the local `result`.
PtiExecute(outcome) ==
    /\ pc = "exec"
    /\ ~dry_run
    /\ LET trade == Head(intents).source_trade
       IN  orders' = Append(orders,
               [kind |-> "copy", trade_id |-> TradeId(trade),
                market_id |-> trade.market_id, outcome |-> trade.outcome,
                side |-> trade.side, size |-> cur.size, result |-> outcome])
    /\ cur' = [cur EXCEPT !.result = outcome]
    /\ pc' = "status"
    /\ UNCHANGED <<now, dry_run, feed, saves, db, mem, exitq, intents>>
    /\ UNCHANGED aux

\* process_trade_intent, `match result`, arm Ok(response): the row becomes
\* 'executed', whatever response.success says.
PtiExecuted ==
    /\ pc = "status"
    /\ cur.result \in {"filled", "unfilled"}
    /\ copy_trades' =
           UpdateCopyTradeStatus(copy_trades, cur.copy_trade_id, "executed",
               IF cur.result = "filled" THEN Len(orders) ELSE NoId,
               GetCurrentPrice(Head(intents).source_trade.market_id,
                               Head(intents).source_trade.outcome),
               IF cur.result = "filled" THEN Len(orders) ELSE NoId,
               None, now)
    /\ pc' = "position"
    /\ UNCHANGED <<env, seen_trades, positions, bot_state, equity_last, mem,
                   exitq, intents, cur>>
    /\ UNCHANGED aux

\* process_trade_intent, `match result`, arm Err(e): the row becomes 'failed'
\* with the error's text; then the last-trade timer and the return.
PtiFailed ==
    /\ pc = "status"
    /\ cur.result \in {"transient"}
    /\ copy_trades' =
           UpdateCopyTradeStatus(copy_trades, cur.copy_trade_id, "failed",
               NoId, NoSize, NoId, cur.result, now)
    /\ last_trade_at' = now
    /\ NextIntent
    /\ UNCHANGED <<env, seen_trades, positions, bot_state, equity_last,
                   last_seen_trades, cash_available, total_exposure,
                   unrealized_pnl, realized_pnl, peak_equity, last_loss_at,
                   exitq>>
    /\ UNCHANGED aux

\* Bot::update_position_after_trade, then the last-trade timer and the return.
PtiPosition ==
    /\ pc = "position"
    /\ LET intent == Head(intents)
           trade == intent.source_trade
           price == GetCurrentPrice(trade.market_id, trade.outcome)
           cost == (cur.size * price) \div 100
       IN  /\ positions' =
                  SavePosition(positions, trade.market_id, trade.outcome,
                               trade.side, cur.size, price, intent.source_trader,
                               now)
           /\ cash_available' =
                  IF trade.side = "Buy" THEN cash_available - cost
                  ELSE cash_available
           /\ total_exposure' =
                  IF trade.side = "Buy" THEN total_exposure + cost
                  ELSE total_exposure
    /\ saves' = Append(saves, TradeId(Head(intents).source_trade))
    /\ last_trade_at' = now
    /\ NextIntent
    /\ UNCHANGED <<now, dry_run, feed, orders, seen_trades, copy_trades,
                   bot_state, equity_last, last_seen_trades, unrealized_pnl,
                   realized_pnl, peak_equity, last_loss_at, exitq>>
    /\ UNCHANGED aux

\* Bot::process_pending_trades: reads the pending rows and does nothing with
\* them.
ProcessPendingTrades ==
    /\ pc = "intents"
    /\ intents = <<>>
    /\ pc' = "record"
    /\ UNCHANGED <<env, db, mem, exitq, intents, cur>>
    /\ UNCHANGED aux

\* Bot::record_equity
RecordEquity ==
    /\ pc = "record"
    /\ LET portfolio == BuildPortfolioState
           equity == portfolio.total_value + portfolio.realized_pnl
                         + portfolio.unrealized_pnl
       IN  /\ peak_equity' = IF equity > peak_equity THEN equity ELSE peak_equity
           /\ equity_last' =
                  [portfolio_value |-> equity,
                   exposure |-> portfolio.total_exposure,
                   unrealized_pnl |-> portfolio.unrealized_pnl,
                   realized_pnl |-> portfolio.realized_pnl]
    /\ pc' = "bot_state"
    /\ UNCHANGED <<env, seen_trades, copy_trades, positions, bot_state,
                   last_seen_trades, cash_available, total_exposure,
                   unrealized_pnl, realized_pnl, last_trade_at, last_loss_at,
                   exitq, intents, cur>>
    /\ UNCHANGED aux

\* Bot::update_bot_state, the last step of tick.
UpdateBotState ==
    /\ pc = "bot_state"
    /\ bot_state' = [bot_state EXCEPT
           !.current_exposure = total_exposure,
           !.total_pnl = realized_pnl + unrealized_pnl,
           !.total_trades = GetCopyTradeStats(copy_trades)[2]]
    /\ pc' = LoopTop
    /\ UNCHANGED <<env, seen_trades, copy_trades, positions, equity_last, mem,
                   exitq, intents, cur, shutdown>>
    /\ UNCHANGED call

\* The process dies at any point and is started again on the same database:
\* Bot::new and Bot::initialize rebuild the process state.  `listed` are the
\* traders for which add_trader's get_trades returns their trades; for the
\* others it returns an empty list.
CrashRestart(listed) ==
    /\ bot_state' = [bot_state EXCEPT !.is_running = TRUE]
    /\ realized_pnl' = IF bot_state.total_trades > 0 THEN bot_state.total_pnl
                       ELSE 0
    /\ last_seen_trades' = InitialLastSeen(listed)
    /\ total_exposure' = ExposureOf(positions)
    /\ cash_available' = PortfolioValue - ExposureOf(positions)
    /\ unrealized_pnl' = 0
    /\ peak_equity' = PortfolioValue
    /\ last_trade_at' = NoTime
    /\ last_loss_at' = NoTime
    /\ pc' = "idle"
    /\ exitq' = <<>>
    /\ intents' = <<>>
    /\ cur' = NoCur
    /\ shutdown' = FALSE
    /\ UNCHANGED <<now, dry_run, feed, orders, saves, seen_trades,
                   copy_trades, positions, equity_last>>
    /\ UNCHANGED call

\* The task Bot::run spawns: ctrl-c arrives and the flag is set, at any
\* point of the run.
Cancel ==
    /\ ~shutdown
    /\ pc # "stopped"
    /\ shutdown' = TRUE
    /\ UNCHANGED <<env, db, mem, ctl, call>>

\* A Bot::shutdown that saves the state without marking the bot stopped.
ShutdownUnmarked ==
    /\ pc = "stopping"
    /\ bot_state' = [bot_state EXCEPT
           !.current_exposure = total_exposure,
           !.total_pnl = realized_pnl + unrealized_pnl,
           !.total_trades = GetCopyTradeStats(copy_trades)[2]]
    /\ pc' = "stopped"
    /\ UNCHANGED <<env, seen_trades, copy_trades, positions, equity_last, mem,
                   exitq, intents, cur, aux>>

\* Bot::shutdown, once the while loop of Bot::run is left: mark_bot_stopped,
\* then update_bot_state; run returns.
Shutdown ==
    /\ pc = "stopping"
    /\ bot_state' = [bot_state EXCEPT
           !.is_running = FALSE,
           !.current_exposure = total_exposure,
           !.total_pnl = realized_pnl + unrealized_pnl,
           !.total_trades = GetCopyTradeStats(copy_trades)[2]]
    /\ pc' = "stopped"
    /\ UNCHANGED <<env, seen_trades, copy_trades, positions, equity_last, mem,
                   exitq, intents, cur, aux>>

\* One step of the run loop (Bot::run, Bot::tick and what they call).
Program ==
    \/ TickStart
    \/ ExitDryRun
    \/ \E outcome \in OrderOutcomes : ExitSubmit(outcome)
    \/ ExitClose
    \/ \E order \in TraderOrders, sv \in SourceValues : Poll(order, sv)
    \/ PtiSkipSeen
    \/ PtiReject
    \/ PtiSave
    \/ PtiMarkSeen
    \/ PtiSimulate
    \/ \E outcome \in OrderOutcomes : PtiExecute(outcome)
    \/ PtiExecuted
    \/ PtiFailed
    \/ PtiPosition
    \/ ProcessPendingTrades
    \/ RecordEquity
    \/ UpdateBotState

Next ==
    \/ \E a \in Traders, m \in Markets, o \in Outcomes, side \in Sides,
          price \in SourcePrices, size \in SourceSizes, age \in TradeAges :
           SourceTrade(a, m, o, side, price, size, age)
    \/ Program
    \/ \E listed \in SUBSET Traders : CrashRestart(listed)

Spec == Init /\ [][Next]_vars

\* The run loop keeps running while the process is up: the timer fires and
\* every step of a tick is taken.  Crashes and source trades stay free.
FairSpec == Spec /\ WF_vars(Program)

\* A run that ctrl-c may end, without crashes: the runtime keeps driving
\* Bot::run, so every step of a tick and of the shutdown is taken.
RunProgram == Program \/ Shutdown

RunNext ==
    \/ \E a \in Traders, m \in Markets, o \in Outcomes, side \in Sides,
          price \in SourcePrices, size \in SourceSizes, age \in TradeAges :
           SourceTrade(a, m, o, side, price, size, age)
    \/ RunProgram
    \/ Cancel

RunSpec == Init /\ [][RunNext]_vars /\ WF_vars(RunProgram)

\* ------------------------------------------- the strategy's pure functions
\* Utc::now() at the calls below: late enough for a position to have been
\* held longer than max_holding_hours.
StrategyNow == 2 * MaxHoldingHours * 3600

\* Arguments of validate_entry.  Sizes and cash in cents, the portfolio of
\* 10000 USDC of the strategy's tests.
EntryMetrics ==
    {NoMetrics,
     [present |-> TRUE, score |-> 50, total_pnl |-> 100],
     [present |-> TRUE, score |-> 39, total_pnl |-> 100],
     [present |-> TRUE, score |-> 50, total_pnl |-> 0]}

\* A position as the strategy sees it (StrategyPosition).
StrategyPositionOf(side, entry_price, current_price, size, opened_at) ==
    [present |-> TRUE, market_id |-> "m1", outcome |-> "Yes", side |-> side,
     size |-> size, entry_price |-> entry_price,
     current_price |-> current_price,
     unrealized_pnl |-> ((current_price - entry_price) * size) \div 100,
     source_trader |-> "a1", opened_at |-> opened_at, closed_at |-> NoTime]

\* A PortfolioState with the given cash, drawdown, count and timers.
PortfolioOf(cash, drawdown, count, last_trade, last_loss) ==
    [total_value |-> 1000000, cash_available |-> cash, total_exposure |-> 0,
     unrealized_pnl |-> 0, realized_pnl |-> 0, current_drawdown |-> drawdown,
     position_count |-> count, last_trade_at |-> last_trade,
     last_loss_at |-> last_loss]

AgoOrNever(age) == IF age = NoTime THEN NoTime ELSE StrategyNow - age

EntryArgs ==
    {[source_trade_time |-> StrategyNow - age, current_price |-> cp,
      source_price |-> sp, proposed_size |-> size, trader_metrics |-> tm,
      portfolio |-> PortfolioOf(cash, dd, pcnt, AgoOrNever(lt), AgoOrNever(ll)),
      market_positions |->
          IF me = 0 THEN <<>>
          ELSE <<StrategyPositionOf("Buy", 50, 50, me, StrategyNow)>>,
      reference_time |-> NoTime] :
        age \in {MaxTradeAgeSecs, MaxTradeAgeSecs + 1}, cp \in {4, 50, 96},
        sp \in {48, 50},
        size \in {500, 50000}, tm \in EntryMetrics, cash \in {50, 30000, 1000000},
        dd \in {0, MaxPortfolioDrawdown * 100}, pcnt \in {0, MaxConcurrentPositions},
        lt \in {NoTime, MinTradeIntervalSecs - 1, MinTradeIntervalSecs},
        ll \in {NoTime, LossCooloffSecs - 1}, me \in {0, 220000, 249950}}

\* Arguments of check_exit.

ExitArgs ==
    {[position |-> StrategyPositionOf(side, ep, cp, 10000, StrategyNow - held),
      portfolio |-> PortfolioOf(1000000, dd, 1, NoTime, NoTime),
      trader_still_holding |-> holding,
      resolution_time |-> IF res = NoTime THEN NoTime ELSE StrategyNow + res] :
        side \in Sides, ep \in {0, 40}, cp \in {30, 34, 35, 40, 49, 50},
        held \in {MaxHoldingHours * 3600 - 1, MaxHoldingHours * 3600},
        dd \in {0, MaxPortfolioDrawdown * 100 - 1, MaxPortfolioDrawdown * 100},
        holding \in BOOLEAN,
        res \in {NoTime, 1800, ExitBeforeResolutionHours * 3600,
                 (ExitBeforeResolutionHours + 1) * 3600}}

\* A caller is about to call validate_entry or check_exit with arguments of
\* the sets above; the orchestrator is at rest.
StrategyInit ==
    /\ now = StrategyNow
    /\ dry_run = TRUE
    /\ feed = [a \in Traders |-> <<>>]
    /\ orders = <<>>
    /\ saves = <<>>
    /\ seen_trades = {}
    /\ copy_trades = <<>>
    /\ positions = [k \in PosKeys |-> NoPosition]
    /\ bot_state = [current_exposure |-> 0, total_pnl |-> 0, total_trades |-> 0,
                    is_running |-> TRUE]
    /\ equity_last = [portfolio_value |-> 0, exposure |-> 0,
                      unrealized_pnl |-> 0, realized_pnl |-> 0]
    /\ last_seen_trades = [a \in Traders |-> NoId]
    /\ cash_available = PortfolioValue
    /\ total_exposure = 0
    /\ unrealized_pnl = 0
    /\ realized_pnl = 0
    /\ peak_equity = PortfolioValue
    /\ last_trade_at = NoTime
    /\ last_loss_at = NoTime
    /\ pc = "idle"
    /\ exitq = <<>>
    /\ intents = <<>>
    /\ cur = NoCur
    /\ shutdown = FALSE
    /\ \/ \E a \in EntryArgs :
              call = [fn |-> "validate_entry", args |-> a, done |-> FALSE]
       \/ \E a \in ExitArgs :
              call = [fn |-> "check_exit", args |-> a, done |-> FALSE]

\* The call of Strategy::validate_entry returns.
CallValidateEntry ==
    /\ call.fn = "validate_entry"
    /\ ~call.done
    /\ call' = [fn |-> call.fn, args |-> call.args, done |-> TRUE,
                result |->
                    ValidateEntry(call.args.source_trade_time,
                                  call.args.current_price,
                                  call.args.source_price,
                                  call.args.proposed_size,
                                  call.args.trader_metrics,
                                  call.args.portfolio,
                                  call.args.market_positions,
                                  call.args.reference_time, now)]
    /\ UNCHANGED <<env, db, mem, ctl, shutdown>>

\* The call of Strategy::check_exit returns.
CallCheckExit ==
    /\ call.fn = "check_exit"
    /\ ~call.done
    /\ call' = [fn |-> call.fn, args |-> call.args, done |-> TRUE,
                result |->
                    CheckExit(call.args.position, call.args.portfolio,
                              call.args.trader_still_holding,
                              call.args.resolution_time, now)]
    /\ UNCHANGED <<env, db, mem, ctl, shutdown>>

StrategyNext == CallValidateEntry \/ CallCheckExit

StrategySpec == StrategyInit /\ [][StrategyNext]_vars

\* The program with a data API whose get_trades may fail, without crashes.
FetchNext ==
    \/ \E a \in Traders, m \in Markets, o \in Outcomes, side \in Sides,
          price \in SourcePrices, size \in SourceSizes, age \in TradeAges :
           SourceTrade(a, m, o, side, price, size, age)
    \/ Program
    \/ \E order \in TraderOrders, k \in 1..Cardinality(Traders) : PollFails(order, k)

FetchSpec == Init /\ [][FetchNext]_vars

\* ------------------------------------------------------ the sizer's functions
\* The orchestrator is at rest while a pure function is called.
AtRest ==
    /\ now = 0
    /\ dry_run = TRUE
    /\ feed = [a \in Traders |-> <<>>]
    /\ orders = <<>>
    /\ saves = <<>>
    /\ seen_trades = {}
    /\ copy_trades = <<>>
    /\ positions = [k \in PosKeys |-> NoPosition]
    /\ bot_state = [current_exposure |-> 0, total_pnl |-> 0, total_trades |-> 0,
                    is_running |-> TRUE]
    /\ equity_last = [portfolio_value |-> 0, exposure |-> 0,
                      unrealized_pnl |-> 0, realized_pnl |-> 0]
    /\ last_seen_trades = [a \in Traders |-> NoId]
    /\ cash_available = PortfolioValue
    /\ total_exposure = 0
    /\ unrealized_pnl = 0
    /\ realized_pnl = 0
    /\ peak_equity = PortfolioValue
    /\ last_trade_at = NoTime
    /\ last_loss_at = NoTime
    /\ pc = "idle"
    /\ exitq = <<>>
    /\ intents = <<>>
    /\ cur = NoCur
    /\ shutdown = FALSE

\* Arguments of calculate_size, cents; win_rate and max_drawdown in percent.
SizerPortfolioValues == {0, 500, PortfolioValue}
SizerMetrics ==
    {NoMetrics, EngineMetrics,
     [present |-> TRUE, win_rate |-> 40, avg_win |-> 100, avg_loss |-> 100,
      max_drawdown |-> 0, score |-> 50, total_pnl |-> 100],
     [present |-> TRUE, win_rate |-> 60, avg_win |-> 100, avg_loss |-> 0,
      max_drawdown |-> 0, score |-> 50, total_pnl |-> 100],
     [present |-> TRUE, win_rate |-> 50, avg_win |-> 100, avg_loss |-> 100,
      max_drawdown |-> 0, score |-> 50, total_pnl |-> 100],
     [present |-> TRUE, win_rate |-> 60, avg_win |-> 200, avg_loss |-> 100,
      max_drawdown |-> 20, score |-> 50, total_pnl |-> 100],
     [present |-> TRUE, win_rate |-> 100, avg_win |-> 0, avg_loss |-> 100,
      max_drawdown |-> 0, score |-> 50, total_pnl |-> 100]}
SizerExposures == {0, 49950, 50000, 60000}

SizerArgs ==
    {[source_trade_size |-> ts, source_portfolio_value |-> sv,
      our_portfolio_value |-> pv, trader_metrics |-> tm,
      current_exposure |-> ce] :
        ts \in {0, 50, 2000, 20000}, sv \in {0, 1000000},
        pv \in SizerPortfolioValues, tm \in SizerMetrics,
        ce \in SizerExposures}

ConstraintArgs ==
    {[size |-> sz, portfolio_value |-> pv, current_exposure |-> ce] :
        \* sz: sizes handed to apply_constraints by the sizing methods
        sz \in {0, 50, 100, 5000, 10001, 200000}, pv \in SizerPortfolioValues,
        ce \in SizerExposures}

SizerInit ==
    /\ AtRest
    /\ \/ \E a \in SizerArgs :
              call = [fn |-> "calculate_size", args |-> a, done |-> FALSE]
       \/ \E a \in ConstraintArgs :
              call = [fn |-> "apply_constraints", args |-> a, done |-> FALSE]

\* The call of PositionSizer::calculate_size returns.
CallCalculateSize ==
    /\ call.fn = "calculate_size"
    /\ ~call.done
    /\ call' = [fn |-> call.fn, args |-> call.args, done |-> TRUE,
                result |->
                    CalculateSize(call.args.source_trade_size,
                                  call.args.source_portfolio_value,
                                  call.args.our_portfolio_value,
                                  call.args.trader_metrics,
                                  call.args.current_exposure)]
    /\ UNCHANGED <<env, db, mem, ctl, shutdown>>

\* The call of PositionSizer::apply_constraints returns.
CallApplyConstraints ==
    /\ call.fn = "apply_constraints"
    /\ ~call.done
    /\ call' = [fn |-> call.fn, args |-> call.args, done |-> TRUE,
                result |->
                    ApplyConstraints(call.args.size, call.args.portfolio_value,
                                     call.args.current_exposure)]
    /\ UNCHANGED <<env, db, mem, ctl, shutdown>>

SizerNext == CallCalculateSize \/ CallApplyConstraints

SizerSpec == SizerInit /\ [][SizerNext]_vars

\* ------------------------------------------------- the metrics calculator
\* P&L values in cents, win_rate in percent, max_drawdown in basis points of
\* the peak (10000 = 1.0); quotients are truncated to those units.
MaxPnls == 3

NewMetrics ==
    [total_trades |-> 0, total_volume |-> 0, total_pnl |-> 0,
     winning_trades |-> 0, losing_trades |-> 0, win_rate |-> 0,
     avg_win |-> 0, avg_loss |-> 0, expectancy |-> 0,
     max_drawdown |-> 0, max_drawdown_usdc |-> 0, peak_equity |-> 0,
     pnl_7d |-> 0, pnl_30d |-> 0, win_rate_7d |-> 0, win_rate_30d |-> 0]

RECURSIVE SumAbs(_)
SumAbs(q) == IF q = <<>> THEN 0 ELSE Abs(Head(q)) + SumAbs(Tail(q))

\* pnls.iter().partition(|p| p > 0): the first half of the partition.
Wins(pnls) == SelectSeq(pnls, LAMBDA p : p > 0)

\* The second half of the partition: every value that is not > 0.
Losses(pnls) == SelectSeq(pnls, LAMBDA p : ~(p > 0))

\* One turn of the loop over the equity curve.
DrawdownStep(acc, pnl) ==
    LET equity == acc.equity + pnl
        peak == IF equity > acc.peak THEN equity ELSE acc.peak
        dd == peak - equity
        dd_pct == IF peak > 0 THEN (dd * 10000) \div peak ELSE 0
    IN  [equity |-> equity,
         peak |-> peak,
         max_dd |-> IF peak > 0 /\ dd > acc.max_dd THEN dd ELSE acc.max_dd,
         max_dd_pct |-> IF peak > 0 /\ dd_pct > acc.max_dd_pct
                        THEN dd_pct ELSE acc.max_dd_pct]

RECURSIVE DrawdownLoop(_, _)
DrawdownLoop(acc, pnls) ==
    IF pnls = <<>> THEN acc
    ELSE DrawdownLoop(DrawdownStep(acc, Head(pnls)), Tail(pnls))

\* MetricsCalculator::calculate_drawdown (the calmar ratio is a float that
\* nothing reads and is left out).
CalculateDrawdown(metrics, pnls) ==
    IF pnls = <<>> THEN metrics
    ELSE LET r == DrawdownLoop([equity |-> 0, peak |-> 0, max_dd |-> 0,
                                max_dd_pct |-> 0], pnls)
         IN  [metrics EXCEPT !.max_drawdown = r.max_dd_pct,
                             !.max_drawdown_usdc = r.max_dd,
                             !.peak_equity = r.peak]

\* MetricsCalculator::calculate_pnl_metrics (profit factor, Sharpe and Sortino
\* ratios are floats over the same series and are left out).
CalculatePnlMetrics(metrics, pnls) ==
    LET wins == Wins(pnls)
        losses == Losses(pnls)
        total == SumSeq(pnls)
        m1 == [metrics EXCEPT
                  !.winning_trades = Len(wins),
                  !.losing_trades = Len(losses),
                  !.total_pnl = total,
                  !.win_rate = IF pnls # <<>>
                               THEN (Len(wins) * 100) \div Len(pnls) ELSE @,
                  !.avg_win = IF wins # <<>>
                              THEN SumSeq(wins) \div Len(wins) ELSE @,
                  !.avg_loss = IF losses # <<>>
                               THEN SumAbs(losses) \div Len(losses) ELSE @,
                  !.expectancy = IF pnls # <<>>
                                 THEN total \div Len(pnls) ELSE @]
    IN  CalculateDrawdown(m1, pnls)

\* Trades no older than the given number of days.
RecentTrades(trades, days) == SelectSeq(trades, LAMBDA t : t.age_days <= days)

\* MetricsCalculator::calculate_recent_metrics.
CalculateRecentMetrics(metrics, trades, pnls) ==
    LET n == Len(trades)
        m1 == IF n > 0 /\ pnls # <<>>
              THEN [metrics EXCEPT
                       !.pnl_7d = (metrics.total_pnl * Len(RecentTrades(trades, 7))) \div n,
                       !.pnl_30d = (metrics.total_pnl * Len(RecentTrades(trades, 30))) \div n]
              ELSE metrics
    IN  [m1 EXCEPT !.win_rate_7d = metrics.win_rate,
                   !.win_rate_30d = metrics.win_rate]

\* MetricsCalculator::calculate (trades per day and the holding period are
\* floats over the trades' timestamps and are left out).
Calculate(trades, resolved_pnls) ==
    IF trades = <<>> THEN NewMetrics
    ELSE LET m1 == [NewMetrics EXCEPT
                       !.total_trades = Len(trades),
                       !.total_volume =
                           SumSeq([i \in 1..Len(trades) |-> trades[i].amount_usdc])]
             m2 == IF resolved_pnls # <<>>
                   THEN CalculatePnlMetrics(m1, resolved_pnls) ELSE m1
         IN  CalculateRecentMetrics(m2, trades, resolved_pnls)

\* The two series of the calculator's own tests, and every series of
\* resolved P&L values up to MaxPnls long.
TestPnls == <<100, 0 - 50, 200, 0 - 30, 150>>
TestDrawdownPnls == <<100, 50, 0 - 80, 0 - 20, 100, 50>>

PnlSeries ==
    UNION {[1..n -> {0 - 150, 0 - 50, 0, 100}] : n \in 0..MaxPnls} \cup {TestPnls, TestDrawdownPnls}

MetricsTrades ==
    {<<>>,
     <<[amount_usdc |-> 1000, age_days |-> 1]>>,
     <<[amount_usdc |-> 1000, age_days |-> 1], [amount_usdc |-> 2500, age_days |-> 10]>>,
     <<[amount_usdc |-> 1000, age_days |-> 40], [amount_usdc |-> 2500, age_days |-> 10]>>}

MetricsInit ==
    /\ AtRest
    /\ \/ \E t \in MetricsTrades, q \in PnlSeries :
              call = [fn |-> "calculate",
                      args |-> [trades |-> t, pnls |-> q], done |-> FALSE]
       \/ \E q \in PnlSeries :
              call = [fn |-> "calculate_pnl_metrics",
                      args |-> [pnls |-> q], done |-> FALSE]
       \/ \E q \in PnlSeries :
              call = [fn |-> "calculate_drawdown",
                      args |-> [pnls |-> q], done |-> FALSE]

\* The call of MetricsCalculator::calculate returns.
CallCalculate ==
    /\ call.fn = "calculate"
    /\ ~call.done
    /\ call' = [fn |-> call.fn, args |-> call.args, done |-> TRUE,
                result |-> Calculate(call.args.trades, call.args.pnls)]
    /\ UNCHANGED <<env, db, mem, ctl, shutdown>>

\* The call of calculate_pnl_metrics on fresh metrics returns.
CallCalculatePnlMetrics ==
    /\ call.fn = "calculate_pnl_metrics"
    /\ ~call.done
    /\ call' = [fn |-> call.fn, args |-> call.args, done |-> TRUE,
                result |-> CalculatePnlMetrics(NewMetrics, call.args.pnls)]
    /\ UNCHANGED <<env, db, mem, ctl, shutdown>>

\* The call of calculate_drawdown on fresh metrics returns.
CallCalculateDrawdown ==
    /\ call.fn = "calculate_drawdown"
    /\ ~call.done
    /\ call' = [fn |-> call.fn, args |-> call.args, done |-> TRUE,
                result |-> CalculateDrawdown(NewMetrics, call.args.pnls)]
    /\ UNCHANGED <<env, db, mem, ctl, shutdown>>

MetricsNext == CallCalculate \/ CallCalculatePnlMetrics \/ CallCalculateDrawdown

MetricsSpec == MetricsInit /\ [][MetricsNext]_vars

\* ----------------------------------------- the Position and Trade models
\* Sizes in tokens, prices in 1/PriceScale of a USDC, values and P&L in
\* tokens times that unit. Decimal products, sums and differences are exact;
\* a Decimal quotient is rounded at its last digit (the 28th in the code, the
\* fourth here).
PriceScale == 100 * 100
MaxOps == 3

\* Decimal division of non-negative values, rounded to the nearest unit.
DecimalDiv(a, b) == (2 * a + b) \div (2 * b)

\* Position::new.
PositionNew(size, price) ==
    [size |-> size, average_price |-> price, current_price |-> price,
     initial_value |-> size * price, current_value |-> size * price,
     unrealized_pnl |-> 0, unrealized_pnl_pct |-> 0]

\* Position::update_price (unrealized_pnl_pct in percent).
PositionUpdatePrice(pos, current_price) ==
    LET value == pos.size * current_price
        pnl == value - pos.initial_value
    IN  [pos EXCEPT !.current_price = current_price,
                    !.current_value = value,
                    !.unrealized_pnl = pnl,
                    !.unrealized_pnl_pct =
                        IF pos.initial_value # 0
                        THEN (pnl * 100) \div pos.initial_value ELSE @]

\* An add that leaves the average price as it was.
PositionAddKeepAverage(pos, size, price) ==
    LET p1 == [pos EXCEPT !.size = pos.size + size,
                          !.initial_value = pos.initial_value + size * price]
    IN  PositionUpdatePrice(p1, p1.current_price)

\* Position::add.
PositionAdd(pos, size, price) ==
    LET new_cost == size * price
        total_cost == pos.initial_value + new_cost
        new_size == pos.size + size
        p1 == [pos EXCEPT !.average_price =
                              IF new_size # 0
                              THEN DecimalDiv(total_cost, new_size) ELSE @,
                          !.size = new_size,
                          !.initial_value = total_cost]
    IN  PositionUpdatePrice(p1, p1.current_price)

\* Position::reduce: the position afterwards and the realized P&L returned.
PositionReduce(pos, size) ==
    LET reduce_size == Min(size, pos.size)
        realized == reduce_size * (pos.current_price - pos.average_price)
        new_size == pos.size - reduce_size
        p1 == [pos EXCEPT !.size = new_size,
                          !.initial_value = new_size * pos.average_price]
    IN  [pos |-> PositionUpdatePrice(p1, p1.current_price),
         realized_pnl |-> realized]

\* Position::is_closed: less than 0.000001 of a token is left.
PositionIsClosed(pos) == pos.size < 1

\* A P&L that takes every trade for a Buy.
TradeCalculatePnlLong(trade, exit_price) == trade.size * (exit_price - trade.price)

\* Trade::calculate_pnl.
TradeCalculatePnl(trade, exit_price) ==
    LET price_diff == exit_price - trade.price
    IN  IF trade.side = "Buy" THEN trade.size * price_diff
        ELSE trade.size * (0 - price_diff)

\* Trade::is_profitable.
TradeIsProfitable(trade, current_price) ==
    IF trade.side = "Buy" THEN current_price > trade.price
    ELSE current_price < trade.price

ModelSizes == {1, 2, 100}
ModelPrices == {5000, 5500, 6000}
TradePrices == {3000, 5000, 7000}

ModelTrades ==
    {[side |-> sd, size |-> sz, price |-> pr] :
        sd \in Sides, sz \in {0, 1, 100}, pr \in TradePrices}

ModelsInit ==
    /\ AtRest
    /\ \/ \E sz \in ModelSizes, pr \in ModelPrices :
              call = [fn |-> "position", opened |-> [size |-> sz, price |-> pr],
                      pos |-> PositionNew(sz, pr), log |-> <<>>,
                      realized_pnl |-> 0]
       \/ \E t \in ModelTrades, pr \in TradePrices, f \in {"calculate_pnl", "is_profitable"} :
              call = [fn |-> f, args |-> [trade |-> t, price |-> pr],
                      done |-> FALSE]

\* Position::add is called on the position.
CallPositionAdd ==
    /\ call.fn = "position"
    /\ Len(call.log) < MaxOps
    /\ \E sz \in ModelSizes, pr \in ModelPrices :
           call' = [call EXCEPT
                       !.pos = PositionAdd(call.pos, sz, pr),
                       !.log = Append(@, [op |-> "add", size |-> sz, price |-> pr])]
    /\ UNCHANGED <<env, db, mem, ctl, shutdown>>

\* Position::update_price is called on the position.
CallPositionUpdatePrice ==
    /\ call.fn = "position"
    /\ Len(call.log) < MaxOps
    /\ \E pr \in ModelPrices :
           call' = [call EXCEPT
                       !.pos = PositionUpdatePrice(call.pos, pr),
                       !.log = Append(@, [op |-> "update_price", size |-> 0, price |-> pr])]
    /\ UNCHANGED <<env, db, mem, ctl, shutdown>>

\* Position::reduce is called on the position, by a part of its size, by all
\* of it or by more.
CallPositionReduce ==
    /\ call.fn = "position"
    /\ Len(call.log) < MaxOps
    /\ \E sz \in ModelSizes \cup {call.pos.size, call.pos.size + 1} :
           LET r == PositionReduce(call.pos, sz)
           IN  call' = [call EXCEPT
                           !.pos = r.pos,
                           !.realized_pnl = r.realized_pnl,
                           !.log = Append(@, [op |-> "reduce", size |-> sz,
                                              price |-> call.pos.current_price])]
    /\ UNCHANGED <<env, db, mem, ctl, shutdown>>

\* The call of Trade::calculate_pnl returns.
CallTradeCalculatePnl ==
    /\ call.fn = "calculate_pnl"
    /\ ~call.done
    /\ call' = [fn |-> call.fn, args |-> call.args, done |-> TRUE,
                result |-> TradeCalculatePnl(call.args.trade, call.args.price)]
    /\ UNCHANGED <<env, db, mem, ctl, shutdown>>

\* The call of Trade::is_profitable returns.
CallTradeIsProfitable ==
    /\ call.fn = "is_profitable"
    /\ ~call.done
    /\ call' = [fn |-> call.fn, args |-> call.args, done |-> TRUE,
                result |-> TradeIsProfitable(call.args.trade, call.args.price)]
    /\ UNCHANGED <<env, db, mem, ctl, shutdown>>

ModelsNext ==
    \/ CallPositionAdd
    \/ CallPositionUpdatePrice
    \/ CallPositionReduce
    \/ CallTradeCalculatePnl
    \/ CallTradeIsProfitable

ModelsSpec == ModelsInit /\ [][ModelsNext]_vars

\* ------------------------------------- validate_entry on a supplied clock
\* validate_entry called with Some(reference_time): hist is how long before
\* the wall clock the reference time lies (a replayed trade), lag how far the
\* reference time is ahead of the trade; the portfolio's timers are on the
\* reference clock, as the backtester keeps them.
ReferenceArgs ==
    {[source_trade_time |-> StrategyNow - hist - lag, current_price |-> cp,
      source_price |-> 50, proposed_size |-> 500, trader_metrics |-> NoMetrics,
      portfolio |->
          PortfolioOf(cash, 0, 0,
                      IF lt = NoTime THEN NoTime ELSE StrategyNow - hist - lt,
                      IF ll = NoTime THEN NoTime ELSE StrategyNow - hist - ll),
      market_positions |-> <<>>,
      reference_time |-> StrategyNow - hist] :
        hist \in {0, 24 * 3600}, lag \in {0, MaxTradeAgeSecs + 1}, cp \in {50, 96},
        cash \in {50, 1000000},
        lt \in {NoTime, MinTradeIntervalSecs - 1, MinTradeIntervalSecs},
        ll \in {NoTime, LossCooloffSecs - 1, LossCooloffSecs}}

ReferenceInit ==
    /\ now = StrategyNow
    /\ dry_run = TRUE
    /\ feed = [a \in Traders |-> <<>>]
    /\ orders = <<>>
    /\ saves = <<>>
    /\ seen_trades = {}
    /\ copy_trades = <<>>
    /\ positions = [k \in PosKeys |-> NoPosition]
    /\ bot_state = [current_exposure |-> 0, total_pnl |-> 0, total_trades |-> 0,
                    is_running |-> TRUE]
    /\ equity_last = [portfolio_value |-> 0, exposure |-> 0,
                      unrealized_pnl |-> 0, realized_pnl |-> 0]
    /\ last_seen_trades = [a \in Traders |-> NoId]
    /\ cash_available = PortfolioValue
    /\ total_exposure = 0
    /\ unrealized_pnl = 0
    /\ realized_pnl = 0
    /\ peak_equity = PortfolioValue
    /\ last_trade_at = NoTime
    /\ last_loss_at = NoTime
    /\ pc = "idle"
    /\ exitq = <<>>
    /\ intents = <<>>
    /\ cur = NoCur
    /\ shutdown = FALSE
    /\ \E a \in ReferenceArgs :
           call = [fn |-> "validate_entry", args |-> a, done |-> FALSE]

ReferenceNext == CallValidateEntry

ReferenceSpec == ReferenceInit /\ [][ReferenceNext]_vars

\* ----------------------------------------------------------- paper trading
\* The paper command with --capital 100 and the default interval, slippage
\* and fee.  Sizes and the strategy's amounts in cents, prices of trades in
\* percent, simulated entry and exit prices in 1/100000 of a USDC, the
\* trader's capital, fees and P&L in cents times that unit (1e-7 USDC): every
\* product below is exact in these units.
PaperInitialCapital == 100 * OneUsdc
PaperIntervalSecs == 30
PaperSlippage == 3
PaperFeeRate == 1
\* Money of the paper trader in one cent.
PaperCent == 100 * 1000

PaperKeys == Markets \X Outcomes

NoPaperPosition ==
    [present |-> FALSE, market_id |-> None, outcome |-> None, side |-> None,
     size |-> 0, entry_price |-> 0, entry_time |-> NoTime, source_trader |-> None]

\* PaperTrader::new, with the list of the trades that changed the book.
NewPaperTrader ==
    [fn |-> "paper",
     capital |-> PaperInitialCapital * PaperCent,
     positions |-> [k \in PaperKeys |-> NoPaperPosition],
     completed_trades |-> <<>>,
     equity |-> PaperInitialCapital * PaperCent,
     total_fees |-> 0,
     peak_equity |-> PaperInitialCapital * PaperCent,
     mutations |-> <<>>]

\* Sum of size * entry_price over the open simulated positions.
PaperExposure(pt) ==
    LET keys == SetToSeq({k \in PaperKeys : pt.positions[k].present})
    IN  SumSeq([i \in 1..Len(keys) |->
                   pt.positions[keys[i]].size * pt.positions[keys[i]].entry_price])

\* SimulatedPosition::pnl_at
PnlAt(pos, current_price) ==
    IF pos.side = "Buy" THEN (current_price - pos.entry_price) * pos.size
    ELSE (pos.entry_price - current_price) * pos.size

\* PaperTrader::close_position for the trade with the given id.
PaperClosePosition(pt, key, exit_price, id) ==
    LET pos == pt.positions[key]
        final_price == IF pos.side = "Buy" THEN exit_price * (1000 - PaperSlippage)
                       ELSE exit_price * (1000 + PaperSlippage)
        pnl == PnlAt(pos, final_price)
        fee == (final_price * pos.size * PaperFeeRate) \div 1000
        net_pnl == pnl - fee
    IN  IF ~pos.present THEN pt
        ELSE [pt EXCEPT
                 !.positions = [@ EXCEPT ![key] = NoPaperPosition],
                 !.capital = @ + pos.size * pos.entry_price + net_pnl,
                 !.total_fees = @ + fee,
                 !.completed_trades =
                     Append(@, [market_id |-> pos.market_id, outcome |-> pos.outcome,
                                side |-> pos.side, size |-> pos.size,
                                entry_price |-> pos.entry_price,
                                exit_price |-> final_price, pnl |-> net_pnl,
                                source_trader |-> pos.source_trader]),
                 !.mutations = Append(@, id)]

\* PaperTrader::process_trade at time t.
PaperProcessTrade(pt, trade, source_trader, current_price, t) ==
    LET key == <<trade.market_id, trade.outcome>>
        existing == pt.positions[key]
        exposure == PaperExposure(pt) \div PaperCent
        portfolio ==
            [total_value |-> PaperInitialCapital,
             cash_available |-> pt.capital \div PaperCent,
             total_exposure |-> exposure,
             unrealized_pnl |-> 0, realized_pnl |-> 0, current_drawdown |-> 0,
             position_count |-> Cardinality({k \in PaperKeys : pt.positions[k].present}),
             last_trade_at |-> NoTime, last_loss_at |-> NoTime]
        \* dec!(10000) is the source portfolio process_trade assumes
        base_size == CalculateSize(trade.amount_usdc, 10000 * OneUsdc,
                                   PaperInitialCapital, NoMetrics, exposure)
        validation == ValidateEntry(trade.timestamp, current_price, trade.price,
                                    base_size, NoMetrics, portfolio, <<>>, NoTime, t)
        size == validation.adjusted_size
        entry_price == IF trade.side = "Buy" THEN current_price * (1000 + PaperSlippage)
                       ELSE current_price * (1000 - PaperSlippage)
        fee == (entry_price * size * PaperFeeRate) \div 1000
        cost == entry_price * size + fee
    IN  IF existing.present /\ existing.side # trade.side
        THEN PaperClosePosition(pt, key, current_price, trade.id)
        ELSE IF ~validation.allowed THEN pt
        ELSE IF size <= 0 THEN pt
        ELSE IF cost > pt.capital THEN pt
        ELSE [pt EXCEPT
                 !.capital = @ - cost,
                 !.total_fees = @ + fee,
                 !.positions = [@ EXCEPT ![key] =
                     [present |-> TRUE, market_id |-> trade.market_id,
                      outcome |-> trade.outcome, side |-> trade.side,
                      size |-> size, entry_price |-> entry_price,
                      entry_time |-> t, source_trader |-> source_trader]],
                 !.mutations = Append(@, trade.id)]

RECURSIVE PaperProcessTrades(_, _, _, _)
\* The inner loop of the paper command: every trade of the fetched list, at
\* its own price.
PaperProcessTrades(pt, trades, addr, t) ==
    IF trades = <<>> THEN pt
    ELSE PaperProcessTrades(
             PaperProcessTrade(pt, Head(trades), addr, Head(trades).price, t),
             Tail(trades), addr, t)

RECURSIVE PaperPollTraders(_, _, _)
\* The loop over the tracked addresses: get_trader_trades(addr, Some(10),
\* None) and the inner loop.
PaperPollTraders(pt, order, t) ==
    IF order = <<>> THEN pt
    ELSE PaperPollTraders(
             PaperProcessTrades(pt, Take(feed[Head(order)], FetchLimit), Head(order), t),
             Tail(order), t)

\* PaperTrader::update_equity with the entry prices for current prices.
PaperUpdateEquity(pt) ==
    LET equity == pt.capital + PaperExposure(pt)
    IN  [pt EXCEPT !.equity = equity,
                   !.peak_equity = IF equity > @ THEN equity ELSE @]

PaperInit == AtRest /\ call = NewPaperTrader

\* One round of the paper loop, the interval after the round before.
PaperPoll(order) ==
    /\ call.fn = "paper"
    /\ now < MaxTicks * PaperIntervalSecs
    /\ now' = now + PaperIntervalSecs
    /\ call' = PaperUpdateEquity(PaperPollTraders(call, order, now'))
    /\ UNCHANGED <<dry_run, feed, orders, saves, db, mem, ctl, shutdown>>

PaperNext ==
    \/ \E a \in Traders, m \in Markets, o \in Outcomes, side \in Sides,
          price \in SourcePrices, size \in SourceSizes, age \in TradeAges :
           SourceTrade(a, m, o, side, price, size, age)
    \/ \E order \in TraderOrders : PaperPoll(order)

PaperSpec == PaperInit /\ [][PaperNext]_vars

\* The same program, started on the database of an earlier session.
PriorSpec == PriorInit /\ [][Next]_vars

\* The same program, started on the database of an earlier session that
\* copied a Buy and, two polls later, a Sell of trader a0 on (m1, Yes) and
\* ended with both positions open: the Buy row with the price of the last
\* refresh, the Sell row as save_position left it.
BookPositions ==
    SavePosition(
        UpdatePositionPrice(
            SavePosition([k \in PosKeys |-> NoPosition], "m1", "Yes", "Buy",
                         MinTradeSize, PlaceholderPrice, "a0",
                         0 - 3 * PollIntervalSecs),
            "m1", "Yes", PlaceholderPrice),
        "m1", "Yes", "Sell", MinTradeSize, PlaceholderPrice, "a0",
        0 - PollIntervalSecs)

BookInit ==
    /\ now = 0
    /\ dry_run \in BOOLEAN
    /\ feed = [a \in Traders |-> <<>>]
    /\ orders = <<>>
    /\ saves = <<>>
    /\ seen_trades = {<<"a0", "m1", 0 - 3 * PollIntervalSecs>>,
                      <<"a0", "m1", 0 - PollIntervalSecs>>}
    /\ copy_trades =
           [i \in 1..2 |->
               [id |-> i, source_trader |-> "a0",
                source_trade_id |->
                    <<"a0", "m1", 0 - (5 - 2 * i) * PollIntervalSecs>>,
                market_id |-> "m1",
                side |-> IF i = 1 THEN "Buy" ELSE "Sell", outcome |-> "Yes",
                our_size |-> MinTradeSize, our_price |-> PlaceholderPrice,
                status |-> "executed", order_id |-> NoId, tx_hash |-> NoId,
                error_message |-> None,
                executed_at |-> 0 - (5 - 2 * i) * PollIntervalSecs]]
    /\ positions = BookPositions
    /\ bot_state = [current_exposure |-> ExposureOf(BookPositions),
                    total_pnl |-> 0, total_trades |-> 2, is_running |-> TRUE]
    /\ equity_last = [portfolio_value |-> PortfolioValue,
                      exposure |-> ExposureOf(BookPositions),
                      unrealized_pnl |-> 0, realized_pnl |-> 0]
    /\ realized_pnl = 0
    /\ last_seen_trades = [a \in Traders |-> NoId]
    /\ cash_available = PortfolioValue - ExposureOf(BookPositions)
    /\ total_exposure = ExposureOf(BookPositions)
    /\ unrealized_pnl = 0
    /\ peak_equity = PortfolioValue
    /\ last_trade_at = NoTime
    /\ last_loss_at = NoTime
    /\ pc = "idle"
    /\ exitq = <<>>
    /\ intents = <<>>
    /\ cur = NoCur
    /\ shutdown = FALSE
    /\ call = NoCall

\* The run is the one of RunSpec: no crash, ctrl-c may end it.
BookSpec == BookInit /\ [][RunNext]_vars

\* The same program, started on a database whose one open position, a Buy of
\* 1500 shares of (m1, Yes) copied from a0, was entered above the price that
\* get_current_price returns now; the row is as save_position left it.
HaltInit ==
    /\ now = 0
    /\ dry_run \in BOOLEAN
    /\ feed = [a \in Traders |-> <<>>]
    /\ orders = <<>>
    /\ saves = <<>>
    /\ seen_trades = {PriorTradeId}
    /\ \E entry_price \in {PlaceholderPrice + 5, PlaceholderPrice + 10} :
           /\ copy_trades =
                  <<[id |-> 1, source_trader |-> "a0",
                     source_trade_id |-> PriorTradeId, market_id |-> "m1",
                     side |-> "Buy", outcome |-> "Yes",
                     our_size |-> 1500 * OneUsdc, our_price |-> entry_price,
                     status |-> "executed", order_id |-> NoId,
                     tx_hash |-> NoId, error_message |-> None,
                     executed_at |-> 0 - PollIntervalSecs]>>
           /\ positions =
                  SavePosition([k \in PosKeys |-> NoPosition], "m1", "Yes",
                               "Buy", 1500 * OneUsdc, entry_price, "a0",
                               0 - PollIntervalSecs)
    /\ bot_state = [current_exposure |-> 0, total_pnl |-> 0,
                    total_trades |-> 1, is_running |-> TRUE]
    /\ equity_last = [portfolio_value |-> PortfolioValue, exposure |-> 0,
                      unrealized_pnl |-> 0, realized_pnl |-> 0]
    /\ realized_pnl = 0
    /\ last_seen_trades = [a \in Traders |-> NoId]
    /\ cash_available = PortfolioValue
    /\ total_exposure = 0
    /\ unrealized_pnl = 0
    /\ peak_equity = PortfolioValue
    /\ last_trade_at = NoTime
    /\ last_loss_at = NoTime
    /\ pc = "idle"
    /\ exitq = <<>>
    /\ intents = <<>>
    /\ cur = NoCur
    /\ shutdown = FALSE
    /\ call = NoCall

\* The run loop while the tracked traders make no trade: the steps of a tick
\* that a poll without intents leads through, and the shutdown.
HaltProgram ==
    \/ TickStart
    \/ ExitDryRun
    \/ \E outcome \in OrderOutcomes : ExitSubmit(outcome)
    \/ ExitClose
    \/ \E order \in TraderOrders, sv \in SourceValues : Poll(order, sv)
    \/ ProcessPendingTrades
    \/ RecordEquity
    \/ UpdateBotState
    \/ Shutdown

\* The runtime keeps driving Bot::run, as in RunSpec; ctrl-c may end the run.
HaltSpec == HaltInit /\ [][HaltProgram \/ Cancel]_vars /\ WF_vars(HaltProgram)

\* ------------------------------------------- the cap on the open positions
\* A book large enough to reach max_concurrent_positions: the Buy rows of the
\* positions table for the outcome Yes of the markets below, each absent,
\* open or closed, and the last-trade timer.  Every tick is 30 s after the
\* one before; every intent is a fresh Buy of min_trade_size at the price
\* get_current_price returns.
CapMarkets == 1..(MaxConcurrentPositions + 2)
CapTicks == 2 * MaxConcurrentPositions + 3

NewBook ==
    [fn |-> "book",
     rows |-> [m \in CapMarkets |-> [state |-> "none", size |-> 0]],
     last_trade_at |-> NoTime]

CapOpen(b) == {m \in CapMarkets : b.rows[m].state = "open"}

\* check_exits: the positions of `closed` are closed, the exit orders of the
\* other open positions fail and leave them open.  In a tick either every
\* exit order goes through or none does.
CapCheckExits(b, closed) ==
    [b EXCEPT !.rows =
        [m \in CapMarkets |->
            IF m \in closed THEN [b.rows[m] EXCEPT !.state = "closed"]
            ELSE b.rows[m]]]

\* process_trade_intent on this book, up to update_position_after_trade.
\* read_ok: whether get_open_positions in build_portfolio_state returns Ok;
\* on an Err position_count is unwrap_or(0).
CapProcessTradeIntent(b, market, read_ok, t) ==
    LET exposure ==
            SumSeq([m \in CapMarkets |->
                       IF m \in CapOpen(b)
                       THEN (b.rows[m].size * PlaceholderPrice) \div 100
                       ELSE 0])
        portfolio ==
            [total_value |-> PortfolioValue,
             cash_available |-> PortfolioValue - exposure,
             total_exposure |-> exposure, unrealized_pnl |-> 0,
             realized_pnl |-> 0, current_drawdown |-> 0,
             position_count |-> IF read_ok THEN Cardinality(CapOpen(b)) ELSE 0,
             last_trade_at |-> b.last_trade_at, last_loss_at |-> NoTime]
        market_positions ==
            IF market \in CapOpen(b)
            THEN <<StrategyPositionOf("Buy", PlaceholderPrice, PlaceholderPrice,
                                      b.rows[market].size, t)>>
            ELSE <<>>
        validation ==
            ValidateEntry(t, PlaceholderPrice, PlaceholderPrice, MinTradeSize,
                          NoMetrics, portfolio, market_positions, NoTime, t)
    IN  IF ~validation.allowed THEN b
        ELSE [b EXCEPT
                 !.rows[market] =
                     [state |-> IF @.state = "none" THEN "open" ELSE @.state,
                      size |-> @.size + validation.adjusted_size],
                 !.last_trade_at = t]

RECURSIVE CapProcessIntents(_, _, _, _)
CapProcessIntents(b, markets, reads, t) ==
    IF markets = <<>> THEN b
    ELSE CapProcessIntents(
             CapProcessTradeIntent(b, Head(markets), Head(reads), t),
             Tail(markets), Tail(reads), t)

\* The intents of a tick: one or two trades, on the first markets that have
\* no row yet.
CapIntents(b) ==
    LET free == {m \in CapMarkets : b.rows[m].state = "none"}
        first == {m \in free : \A n \in free : m <= n}
        second == {m \in free \ first : \A n \in free \ first : m <= n}
    IN  {<<m>> : m \in first} \cup {<<m, n>> : m \in first, n \in second}

CapInit == AtRest /\ call = NewBook

\* One tick: the exits, then the intents of the poll, one after the other.
CapTick(closed, markets, reads) ==
    /\ call.fn = "book"
    /\ now < CapTicks * PollIntervalSecs
    /\ now' = now + PollIntervalSecs
    /\ call' = CapProcessIntents(CapCheckExits(call, closed), markets, reads,
                                 now')
    /\ UNCHANGED <<dry_run, feed, orders, saves, db, mem, ctl, shutdown>>

CapNext ==
    \E closed \in {{}, CapOpen(call)}, markets \in CapIntents(call) :
        \E reads \in [1..Len(markets) -> BOOLEAN] :
            CapTick(closed, markets, reads)

CapSpec == CapInit /\ [][CapNext]_vars

\* ==================================================================== claims
\* The submissions of copy orders made for a trade_id.
CopyOrdersOf(trade_id) ==
    {i \in 1..Len(orders) :
        orders[i].kind = "copy" /\ orders[i].trade_id = trade_id}

\* The save_position calls made for a trade_id.
SavesOf(trade_id) == {i \in 1..Len(saves) : saves[i] = trade_id}

\* The copy_trades rows of a trade_id.
RowsOf(trade_id) ==
    {i \in 1..Len(copy_trades) : copy_trades[i].source_trade_id = trade_id}

\* Every trade_id an order or a position update was made for.
ActedTradeIds ==
    {orders[i].trade_id : i \in {j \in 1..Len(orders) : orders[j].kind = "copy"}}
        \cup {saves[i] : i \in 1..Len(saves)}

TerminalStatuses == {"executed", "simulated", "failed", "rejected"}

\* process_trade_intent is at validate_entry with an intent not seen before
\* that the strategy denies.
AtDenial ==
    /\ pc = "intents"
    /\ intents # <<>>
    /\ ~(TradeId(Head(intents).source_trade) \in seen_trades)
    /\ ~ValidateIntent(Head(intents)).allowed

\* C1: for every source trade_id at most one order is submitted and at most
\* one position update (save_position) is made, however often the trade is
\* returned by polling and however often the process is restarted.
C1_AtMostOnePerTradeId ==
    \A t \in ActedTradeIds :
        /\ Cardinality(CopyOrdersOf(t)) <= 1
        /\ Cardinality(SavesOf(t)) <= 1

\* A trade that was ordered and booked in an earlier tick is handed to
\* process_trade_intent again by a later poll.
C1_Redelivered ==
    /\ pc = "intents"
    /\ intents # <<>>
    /\ CopyOrdersOf(TradeId(Head(intents).source_trade)) # {}
    /\ SavesOf(TradeId(Head(intents).source_trade)) # {}
    /\ \E r \in RowsOf(TradeId(Head(intents).source_trade)) :
           /\ copy_trades[r].status = "executed"
           /\ copy_trades[r].executed_at < now

\* C2: the seen_trades row of a trade_id is persisted before its order is
\* submitted: in no state, crashes included, does an order exist for a
\* trade_id that is not in seen_trades.
C2_SeenBeforeOrder ==
    \A i \in 1..Len(orders) :
        orders[i].kind = "copy" => orders[i].trade_id \in seen_trades

\* The process crashed between the submission of an order and the update of
\* its copy_trades row, and was started again.
C2_CrashedAfterOrder ==
    /\ pc = "idle"
    /\ \E i \in 1..Len(orders) :
           /\ orders[i].kind = "copy"
           /\ \A r \in RowsOf(orders[i].trade_id) :
                  copy_trades[r].status = "pending"

\* C3: a copy_trades row only ever has one of the statuses pending,
\* executed, simulated, failed, rejected; a terminal status never changes;
\* and every row reaches a terminal status, in particular a row that is
\* still pending when a tick has gone through its retry step.
C3_StatusLifecycle ==
    /\ [](\A i \in 1..Len(copy_trades) :
             copy_trades[i].status \in TerminalStatuses \cup {"pending"})
    /\ [][\A i \in 1..Len(copy_trades) :
             copy_trades[i].status \in TerminalStatuses
                 => copy_trades'[i].status = copy_trades[i].status]_vars
    /\ \A i \in 1..(MaxTrades * MaxTicks) :
           (/\ Len(copy_trades) >= i
            /\ pc = "record"
            /\ copy_trades[i].status = "pending")
               ~> (/\ Len(copy_trades) >= i
                   /\ copy_trades[i].status \in TerminalStatuses)

\* A row that is pending while process_trade_intent is not at work on it
\* stays pending in every step, whatever the number of ticks that follow.
AbandonedRowStaysPending ==
    [][\A i \in 1..Len(copy_trades) :
          (copy_trades[i].status = "pending" /\ cur.copy_trade_id # i)
              => copy_trades'[i].status = "pending"]_vars

\* C4: process_pending_trades retries the rows still pending: a run of it
\* that finds a pending row submits an order or updates a row.
C4_PendingRetried ==
    [][(/\ pc = "intents"
        /\ intents = <<>>
        /\ pc' = "record"
        /\ GetPendingCopyTrades(copy_trades) # <<>>)
           => (orders' # orders \/ copy_trades' # copy_trades)]_vars

\* C5: when validate_entry denies a trade, its trade_id is inserted in
\* seen_trades, no order is submitted, and positions, cash and exposure stay
\* as they were.
C5_DenialLeavesBook ==
    [][(AtDenial /\ pc' = "intents")
           => /\ seen_trades' =
                     seen_trades \cup {TradeId(Head(intents).source_trade)}
              /\ orders' = orders
              /\ saves' = saves
              /\ positions' = positions
              /\ cash_available' = cash_available
              /\ total_exposure' = total_exposure]_vars

\* A denied trade: its trade_id is in seen_trades and nothing else was
\* written for it.
C5_Denied ==
    \E t \in seen_trades :
        RowsOf(t) = {} /\ CopyOrdersOf(t) = {} /\ SavesOf(t) = {}

\* C6: a denied trade is recorded as a copy_trades row with status rejected
\* and the reason of the denial.
C6_DenialRecorded ==
    [][(AtDenial /\ pc' = "intents")
           => \E i \in 1..Len(copy_trades') :
                  /\ copy_trades'[i].source_trade_id =
                         TradeId(Head(intents).source_trade)
                  /\ copy_trades'[i].status = "rejected"
                  /\ copy_trades'[i].error_message # None]_vars

\* C7: in live mode a row is executed, and the position booked, only when
\* the submission succeeded; a submission that failed (a transport error or
\* an OrderResponse with success = false) leaves the row failed with an
\* error message and no position booked.
C7_ExecutedOnlyOnSuccess ==
    ~dry_run =>
        /\ \A i \in 1..Len(copy_trades) :
               copy_trades[i].status = "executed"
                   => \E j \in CopyOrdersOf(copy_trades[i].source_trade_id) :
                          orders[j].result = "filled"
        /\ \A t \in ActedTradeIds :
               SavesOf(t) # {}
                   => \E j \in CopyOrdersOf(t) : orders[j].result = "filled"

\* C8: a submission that fails transiently is retried, up to 3 attempts: a
\* row is failed only after 3 submissions were made for its trade.
C8_FailedAfterThreeAttempts ==
    \A i \in 1..Len(copy_trades) :
        copy_trades[i].status = "failed"
            => Cardinality(CopyOrdersOf(copy_trades[i].source_trade_id)) = 3

\* C9: the intents of a tick are dispatched in ascending order of the source
\* trades' timestamps, over all tracked traders.
C9_IntentsAscending ==
    \A i, j \in 1..Len(intents) :
        i < j => intents[i].source_trade.timestamp
                     <= intents[j].source_trade.timestamp

\* The opposite side.
Opposite(side) == IF side = "Buy" THEN "Sell" ELSE "Buy"

\* C10: a copied trade that opposes an open position of the same source
\* trader closes that position instead of opening a new one.
C10_OpposingTradeCloses ==
    [][LET trade == Head(intents).source_trade
           own == <<trade.market_id, trade.outcome, trade.side>>
           opp == <<trade.market_id, trade.outcome, Opposite(trade.side)>>
       IN  (/\ pc = "position"
            /\ pc' = "intents"
            /\ IsOpen(positions[opp])
            /\ positions[opp].source_trader = trade.trader_address)
               => /\ ~IsOpen(positions'[opp])
                  /\ positions'[own] = positions[own]]_vars

CostBasisOf(pos) ==
    LET open == GetOpenPositions(pos)
    IN  SumSeq([i \in 1..Len(open) |->
                   (open[i].size * open[i].entry_price) \div 100])

\* Every position ever booked is a Buy.
LongOnly == \A k \in PosKeys : positions[k].present => positions[k].side = "Buy"

\* C13: when a tick on a long-only book has completed, cash_available plus
\* the cost basis of the open positions minus realized_pnl equals the
\* initial capital portfolio_value.
C13_AccountingIdentity ==
    [][(UpdateBotState /\ LongOnly)
           => cash_available' + CostBasisOf(positions') - realized_pnl'
                  = PortfolioValue]_vars

\* C14: a positions row whose closed_at is set is immutable: no step changes
\* its size, entry_price, current_price, unrealized_pnl or closed_at.
C14_ClosedRowImmutable ==
    [][\A k \in PosKeys :
          (positions[k].present /\ positions[k].closed_at # NoTime)
              => /\ positions'[k].size = positions[k].size
                 /\ positions'[k].entry_price = positions[k].entry_price
                 /\ positions'[k].current_price = positions[k].current_price
                 /\ positions'[k].unrealized_pnl = positions[k].unrealized_pnl
                 /\ positions'[k].closed_at = positions[k].closed_at]_vars

\* C15: a restart between two ticks rebuilds the process as the last
\* completed tick left it: the portfolio state (cash_available,
\* total_exposure, unrealized_pnl, realized_pnl, peak_equity and with it the
\* drawdown, position_count, last_trade_at, last_loss_at) and seen_trades
\* are after the restart what they were before it.
C15_RestartRebuildsState ==
    [][(pc = "idle" /\ \E listed \in SUBSET Traders : CrashRestart(listed))
           => /\ cash_available' = cash_available
              /\ total_exposure' = total_exposure
              /\ unrealized_pnl' = unrealized_pnl
              /\ realized_pnl' = realized_pnl
              /\ peak_equity' = peak_equity
              /\ OpenKeys(positions') = OpenKeys(positions)
              /\ last_trade_at' = last_trade_at
              /\ last_loss_at' = last_loss_at
              /\ seen_trades' = seen_trades]_vars

EntryReturned == call.fn = "validate_entry" /\ call.done

\* The in-market exposure validate_entry is given.
ExistingExposure(a) ==
    SumSeq([i \in 1..Len(a.market_positions) |-> a.market_positions[i].size])

\* The market cap total_value * max_single_market_exposure.
MarketCap(a) == (a.portfolio.total_value * MaxSingleMarketExposure) \div 100

\* At least one of the eleven entry rules fires on the arguments a at time t.
EntryRuleFires(a, t) ==
    \/ t - a.source_trade_time > MaxTradeAgeSecs
    \/ a.current_price < MinEntryPrice \/ a.current_price > MaxEntryPrice
    \/ /\ a.source_price > 0
       /\ Abs(a.current_price - a.source_price) * 100
              > MaxEntrySlippage * a.source_price
    \/ a.trader_metrics.present /\ a.trader_metrics.score < MinTraderScore
    \/ /\ a.trader_metrics.present
       /\ RequireProfitableTrader
       /\ a.trader_metrics.total_pnl <= 0
    \/ a.portfolio.current_drawdown >= MaxPortfolioDrawdown * 100
    \/ a.portfolio.position_count >= MaxConcurrentPositions
    \/ a.portfolio.cash_available < OneUsdc
    \/ /\ ExistingExposure(a) + a.proposed_size > MarketCap(a)
       /\ MarketCap(a) - ExistingExposure(a) < OneUsdc
    \/ /\ a.portfolio.last_trade_at # NoTime
       /\ t - a.portfolio.last_trade_at < MinTradeIntervalSecs
    \/ /\ a.portfolio.last_loss_at # NoTime
       /\ t - a.portfolio.last_loss_at < LossCooloffSecs

\* C17: validate_entry denies if and only if at least one of the eleven
\* entry rules fires, also when the proposed size exceeds cash_available or
\* the market-exposure cap.
C17_DeniesIffRuleFires ==
    EntryReturned
        => (~call.result.allowed <=> EntryRuleFires(call.args, now))

\* C18: when validate_entry allows a trade the returned size is strictly
\* positive and at most the proposed size, also when it is clamped to the
\* cash or to the market cap; at the market clamp it is the cap
\* total_value * max_single_market_exposure less the exposure already in the
\* market.
C18_ClampedSize ==
    (EntryReturned /\ call.result.allowed)
        => /\ call.result.adjusted_size > 0
           /\ call.result.adjusted_size <= call.args.proposed_size
           /\ (/\ call.args.proposed_size <= call.args.portfolio.cash_available
               /\ ExistingExposure(call.args) + call.args.proposed_size
                      > MarketCap(call.args))
                  => call.result.adjusted_size
                         = MarketCap(call.args) - ExistingExposure(call.args)

\* Cap 2500, existing 2200, proposed 500: Allow(300).
C18_MarketClamp ==
    /\ EntryReturned
    /\ MarketCap(call.args) = 250000
    /\ ExistingExposure(call.args) = 220000
    /\ call.args.proposed_size = 50000
    /\ call.result.allowed
    /\ call.result.adjusted_size = 30000

\* A call of check_exit has returned.
ExitReturned == call.fn = "check_exit" /\ call.done

\* The rows of the exit table in their order, and for the arguments a at
\* time t whether each row's condition holds; the return is the one
\* return_pct gives check_exit.
ExitReasons ==
    <<"TakeProfit", "StopLoss", "MaxHoldingPeriod", "TraderExited",
      "MarketResolution", "PortfolioRisk">>

ExitConditions(a, t) ==
    <<ReturnAtLeast(a.position, TakeProfitPct),
      ReturnAtMost(a.position, 0 - StopLossPct),
      (t - a.position.opened_at) \div 3600 >= MaxHoldingHours,
      FollowTraderExits /\ ~a.trader_still_holding,
      /\ a.resolution_time # NoTime
      /\ (a.resolution_time - t) \div 3600 > 0
      /\ (a.resolution_time - t) \div 3600 <= ExitBeforeResolutionHours,
      a.portfolio.current_drawdown >= MaxPortfolioDrawdown * 100>>

Firing(a, t) == {i \in 1..6 : ExitConditions(a, t)[i]}

\* C19: check_exit reports the first row of the exit table whose condition
\* holds, also when several hold at once; the urgency is Immediate exactly
\* for StopLoss and PortfolioRisk and Normal for the other exits; when no
\* condition holds the result is should_exit = false with reason None.
C19_FirstExitWins ==
    ExitReturned =>
        LET firing == Firing(call.args, now)
            r == call.result
        IN  IF firing = {}
            THEN ~r.should_exit /\ r.reason = "None" /\ r.urgency = "None"
            ELSE /\ r.should_exit
                 /\ \E i \in firing :
                        /\ \A j \in firing : i <= j
                        /\ r.reason = ExitReasons[i]
                 /\ r.urgency = IF r.reason \in {"StopLoss", "PortfolioRisk"}
                                THEN "Immediate" ELSE "Normal"

\* Take-profit, the holding period, the trader's exit, the resolution and
\* the drawdown hold at once: TakeProfit is reported.
C19_SeveralFire ==
    /\ ExitReturned
    /\ {1, 3, 4, 5, 6} \subseteq Firing(call.args, now)
    /\ call.result.reason = "TakeProfit"
    /\ call.result.urgency = "Normal"

\* The return of a position with its side taken into account, compared
\* against pct percent: (current - entry) / entry for a Buy,
\* (entry - current) / entry for a Sell.
SideReturnAtLeast(position, pct) ==
    IF position.side = "Buy"
    THEN (position.current_price - position.entry_price) * 100
             >= pct * position.entry_price
    ELSE (position.entry_price - position.current_price) * 100
             >= pct * position.entry_price

SideReturnAtMost(position, pct) ==
    IF position.side = "Buy"
    THEN (position.current_price - position.entry_price) * 100
             <= pct * position.entry_price
    ELSE (position.entry_price - position.current_price) * 100
             <= pct * position.entry_price

\* C20: check_exit measures the return of a Buy as (current - entry) / entry
\* and of a Sell as (entry - current) / entry: a position, Sell included,
\* whose return so measured reached take_profit_pct is reported TakeProfit,
\* and one whose return fell to -stop_loss_pct is reported StopLoss.
C20_ReturnSideAware ==
    (ExitReturned /\ call.args.position.entry_price > 0)
        => /\ SideReturnAtLeast(call.args.position, TakeProfitPct)
                  => call.result.reason = "TakeProfit"
           /\ SideReturnAtMost(call.args.position, 0 - StopLossPct)
                  => call.result.reason = "StopLoss"

\* A call of calculate_size has returned.
SizeReturned == call.fn = "calculate_size" /\ call.done

\* The metrics give the Kelly method no edge: win_rate < 0.5, or avg_loss =
\* 0, or a Kelly fraction (p * avg_win - q * avg_loss) / avg_win <= 0.
NoEdge(m) ==
    /\ m.present
    /\ \/ m.win_rate < 50
       \/ m.avg_loss = 0
       \/ /\ m.avg_win > 0
          /\ m.win_rate * m.avg_win - (100 - m.win_rate) * m.avg_loss <= 0

\* C21: with the Kelly method, metrics that give no edge make calculate_size
\* return 0, whatever the source notional, the portfolio value and the
\* current exposure.
C21_NoEdgeSizesZero ==
    (/\ SizeReturned
     /\ SizingMethodOf(SizingMethodName) = "Kelly"
     /\ NoEdge(call.args.trader_metrics))
        => call.result = 0

\* A call of calculate_size or of apply_constraints has returned.
SizerReturned == call.fn \in {"calculate_size", "apply_constraints"} /\ call.done

\* The portfolio value of a sizer call.
SizerPortfolio ==
    IF call.fn = "calculate_size" THEN call.args.our_portfolio_value
    ELSE call.args.portfolio_value

\* our_portfolio * max_portfolio_allocation - current_exposure
RemainingAllocation ==
    (SizerPortfolio * MaxPortfolioAllocation) \div 100
        - call.args.current_exposure

\* C22: calculate_size returns 0 or a size between min_trade_size and the
\* least of max_trade_size, our_portfolio * max_single_position and the
\* remaining allocation; it returns 0 whenever the remaining allocation is
\* <= 0.
C22_SizeWithinLimits ==
    SizerReturned
        => /\ \/ call.result = 0
              \/ /\ call.result >= MinTradeSize
                 /\ call.result <= MaxTradeSize
                 /\ call.result
                        <= (SizerPortfolio * MaxSinglePosition) \div 100
                 /\ call.result <= RemainingAllocation
           /\ RemainingAllocation <= 0 => call.result = 0

\* Less than min_trade_size is left of the allocation: the size is refused.
C22_CutToRemaining ==
    /\ call.fn = "apply_constraints"
    /\ call.done
    /\ call.args.size > RemainingAllocation
    /\ RemainingAllocation > 0
    /\ RemainingAllocation < MinTradeSize
    /\ call.result = 0

\* C23: for every P&L series, also one with a loss larger than the equity
\* peak reached so far, the max_drawdown the metrics engine computes is at
\* least 0 and at most 1.
DrawdownReturned == call.fn = "calculate_drawdown" /\ call.done

C23_DrawdownWithinUnit ==
    DrawdownReturned =>
        /\ call.result.max_drawdown >= 0
        /\ call.result.max_drawdown <= 10000

\* C24: winning_trades counts exactly the P&L values above 0 and
\* losing_trades exactly those below 0; a zero P&L value is in neither count
\* and not in the average loss, but it is in total_pnl.
PnlMetricsReturned == call.fn = "calculate_pnl_metrics" /\ call.done

Positive(pnls) == SelectSeq(pnls, LAMBDA p : p > 0)

Negative(pnls) == SelectSeq(pnls, LAMBDA p : p < 0)

C24_ZeroInNeitherCount ==
    PnlMetricsReturned =>
        LET pnls == call.args.pnls
            neg == Negative(pnls)
        IN  /\ call.result.winning_trades = Len(Positive(pnls))
            /\ call.result.losing_trades = Len(neg)
            /\ call.result.avg_loss =
                   (IF neg = <<>> THEN 0 ELSE SumAbs(neg) \div Len(neg))
            /\ call.result.total_pnl = SumSeq(pnls)

\* C25: calculate derives winning_trades, losing_trades, total_pnl, win_rate,
\* max_drawdown and max_drawdown_usdc from the resolved P&L series whatever
\* the trade list is, an empty one included: <<100, -50, 200, -30, 150>>
\* gives 3 wins, 2 losses and a total of 370, and
\* <<100, 50, -80, -20, 100, 50>> gives a max_drawdown_usdc of 100.
CalculateReturned == call.fn = "calculate" /\ call.done

PnlFields(m) == <<m.winning_trades, m.losing_trades, m.total_pnl, m.win_rate, m.max_drawdown, m.max_drawdown_usdc>>

C25_PnlMetricsForAnyTrades ==
    CalculateReturned =>
        /\ PnlFields(call.result) =
               PnlFields(CalculatePnlMetrics(NewMetrics, call.args.pnls))
        /\ call.args.pnls = TestPnls =>
               /\ call.result.winning_trades = 3
               /\ call.result.losing_trades = 2
               /\ call.result.total_pnl = 370
        /\ call.args.pnls = TestDrawdownPnls =>
               call.result.max_drawdown_usdc = 100

\* C26: a position opened with (s1, p1), added to with (s2, p2), priced at
\* p2 and reduced by its full size returns a realized P&L of s1 * (p2 - p1)
\* and is left closed with size 0.
AveragedAndClosed ==
    /\ call.fn = "position"
    /\ Len(call.log) = 3
    /\ call.log[1].op = "add"
    /\ call.log[2].op = "update_price"
    /\ call.log[2].price = call.log[1].price
    /\ call.log[3].op = "reduce"
    /\ call.log[3].size = call.opened.size + call.log[1].size

AveragingLaw == call.opened.size * (call.log[1].price - call.opened.price)

C26_AveragingRoundTrip ==
    AveragedAndClosed =>
        /\ call.realized_pnl = AveragingLaw
        /\ PositionIsClosed(call.pos)
        /\ call.pos.size = 0

\* C26 as the code has it: the realized P&L is s1 * (p2 - p1) within the
\* rounding of the average price, one unit of its last digit on each token
\* at most; the position is left closed with size 0.
C26_AveragingWithinRounding ==
    AveragedAndClosed =>
        /\ Abs(call.realized_pnl - AveragingLaw) <= call.log[3].size
        /\ PositionIsClosed(call.pos)
        /\ call.pos.size = 0

\* The average price of the round trip was rounded and the realized P&L is
\* off the law by it.
C26_RoundedAverage ==
    /\ AveragedAndClosed
    /\ call.realized_pnl # AveragingLaw
    /\ call.pos.size = 0

\* C27: for every size, entry price and exit price, calculate_pnl of a Sell
\* is -1 times calculate_pnl of the Buy with the same size and price, and
\* is_profitable holds exactly when calculate_pnl is above 0.
PnlReturned == call.fn = "calculate_pnl" /\ call.done

ProfitableReturned == call.fn = "is_profitable" /\ call.done

MirrorBuy(trade) == [trade EXCEPT !.side = "Buy"]

SellMirrorsBuy ==
    (PnlReturned /\ call.args.trade.side = "Sell") =>
        call.result = 0 - TradeCalculatePnl(MirrorBuy(call.args.trade), call.args.price)

C27_SellMirrorsBuy ==
    /\ SellMirrorsBuy
    /\ ProfitableReturned =>
           (call.result <=> TradeCalculatePnl(call.args.trade, call.args.price) > 0)

\* C27 as the code has it: the Sell mirrors the Buy for every size, and
\* is_profitable holds exactly when calculate_pnl is above 0 for a trade of
\* a size above 0; is_profitable compares the prices alone, so a trade of
\* size 0 is profitable with a P&L of 0.
C27_MirrorAndSignForPositiveSize ==
    /\ SellMirrorsBuy
    /\ (ProfitableReturned /\ call.args.trade.size > 0) =>
           (call.result <=> TradeCalculatePnl(call.args.trade, call.args.price) > 0)
    /\ (ProfitableReturned /\ call.args.trade.size = 0) =>
           TradeCalculatePnl(call.args.trade, call.args.price) = 0

\* A Sell closed below its price: its P&L is above 0.
C27_SellGains ==
    /\ PnlReturned
    /\ call.args.trade.side = "Sell"
    /\ call.args.trade.size > 0
    /\ call.args.price < call.args.trade.price
    /\ call.result > 0

\* C28: for a position that check_exit wants out the orchestrator submits an
\* order of the opposite side; when the order succeeds the position is
\* closed, its unrealized P&L is added to realized_pnl and last_loss_at is
\* set if that P&L is negative; when the order fails the position stays open
\* and realized_pnl and last_loss_at are as they were.
LastOrder == orders[Len(orders)]

ExitOrderFor(pos) ==
    /\ orders # <<>>
    /\ LastOrder.kind = "exit"
    /\ LastOrder.market_id = pos.market_id
    /\ LastOrder.outcome = pos.outcome
    /\ LastOrder.side = (IF pos.side = "Buy" THEN "Sell" ELSE "Buy")
    /\ LastOrder.size = pos.size

ExitSettled(pos) ==
    /\ positions' = ClosePosition(positions, pos.market_id, pos.outcome, now)
    /\ realized_pnl' = realized_pnl + pos.unrealized_pnl
    /\ last_loss_at' = (IF pos.unrealized_pnl < 0 THEN now ELSE last_loss_at)

C28_ExitSettledOnSuccessOnly ==
    [][ExitClose =>
           /\ ExitOrderFor(Head(exitq))
           /\ IF LastOrder.result = "filled"
              THEN ExitSettled(Head(exitq))
              ELSE UNCHANGED <<positions, realized_pnl, last_loss_at>>]_vars

\* C29: in the orchestrator's exit evaluation a position is exited with
\* reason TraderExited only when follow_trader_exits is set and its source
\* trader holds that market no longer; a position whose source trader still
\* holds the market is not closed for that reason on a later tick.
SignedSize(t) == IF t.side = "Buy" THEN t.size ELSE 0 - t.size

\* What trader a holds of (market_id, outcome), by the trades of its feed.
SourceHolding(a, market_id, outcome) ==
    LET own == SelectSeq(feed[a], LAMBDA t : t.market_id = market_id /\ t.outcome = outcome)
    IN  SumSeq([i \in 1..Len(own) |-> SignedSize(own[i])])

ExitReasonOf(p) ==
    CheckExit(p, BuildPortfolioState', p.source_trader = None, NoTime, now').reason

C29_TraderExitedOnlyWhenGone ==
    [][(TickStart /\ pc' = "exits") =>
           \A i \in 1..Len(exitq') :
               LET p == exitq'[i]
               IN  ExitReasonOf(p) = "TraderExited" =>
                       /\ FollowTraderExits
                       /\ p.source_trader # None
                       /\ SourceHolding(p.source_trader, p.market_id, p.outcome) <= 0]_vars

\* C30: validate_entry takes the supplied reference_time for `now` in its
\* time-based rules: with the trade's own timestamp for reference time a
\* historical trade is never denied as too old, and the anti-churn interval
\* and the loss cool-off are measured on that clock, not on the wall clock.
OnReferenceClock(a) ==
    ValidateEntry(a.source_trade_time, a.current_price, a.source_price, a.proposed_size, a.trader_metrics, a.portfolio, a.market_positions, a.reference_time, a.reference_time)

C30_RulesOnReferenceClock ==
    (EntryReturned /\ call.args.reference_time # NoTime) =>
        /\ call.args.reference_time = call.args.source_trade_time
               => call.result.reason # "Trade too old"
        /\ call.result = OnReferenceClock(call.args)

\* C31: when the fetch of one trader's trades fails in poll_for_trades, the
\* new trades already detected for other traders in that poll are dispatched
\* in this tick or detected again on a later tick, never silently dropped.
TradesOf(q) == {q[i] : i \in 1..Len(q)}

Dispatched == {intents'[i].source_trade : i \in 1..Len(intents')}

C31_FailedFetchDropsNothing ==
    [][(\E order \in TraderOrders, k \in 1..Cardinality(Traders) : PollFails(order, k)) =>
           \A a \in Traders :
               TradesOf(NewTrades(a)) \subseteq Dispatched \cup TradesOf(NewTrades(a)')]_vars

\* C32: the cancellation flag is read at the top of each tick, after the
\* wait for the timer and before any step of the tick: when the flag is set
\* while the orchestrator waits for the next tick, that tick does not go on
\* to its exits, its poll of the traders and its orders.
C32_FlagSetInWaitStopsTick ==
    [][(shutdown /\ pc = "idle") => pc' # "exits"]_vars

\* C33: in paper mode each source trade changes the simulated book at most
\* once: a trade that a later poll returns again does not open, replace or
\* close a simulated position a second time.
PaperRunning == call.fn = "paper"

C33_PaperTradeOnce ==
    PaperRunning =>
        \A i, j \in 1..Len(call.mutations) :
            call.mutations[i] = call.mutations[j] => i = j

\* C34: in the simulators, after any sequence of processed trades, capital
\* plus the sum of size * entry_price over the open simulated positions is
\* initial_capital plus the net P&L of the completed trades less the entry
\* fees paid; a same-side trade on a (market, outcome) that has an open
\* simulated position adds to it and does not discard its committed capital.
\* (Stated for books in which no trade was processed twice.)
PaperNetPnl ==
    SumSeq([i \in 1..Len(call.completed_trades) |-> call.completed_trades[i].pnl])

PaperExitFees ==
    SumSeq([i \in 1..Len(call.completed_trades) |->
               (call.completed_trades[i].exit_price * call.completed_trades[i].size
                    * PaperFeeRate) \div 1000])

C34_PaperCapitalIdentity ==
    (PaperRunning /\ C33_PaperTradeOnce) =>
        call.capital + PaperExposure(call)
            = PaperInitialCapital * PaperCent + PaperNetPnl
                  - (call.total_fees - PaperExitFees)

\* C35: a copy trade saved on a (market_id, outcome, side) whose position was
\* closed before leaves an open position, one that get_open_positions
\* returns, with the size and the entry price of the new trade only.
C35_SaveAfterCloseOpens ==
    [][PtiPosition =>
          LET trade == Head(intents).source_trade
              key == <<trade.market_id, trade.outcome, trade.side>>
          IN  (positions[key].present /\ positions[key].closed_at # NoTime) =>
                  /\ IsOpen(positions'[key])
                  /\ positions'[key].size = cur.size
                  /\ positions'[key].entry_price =
                         GetCurrentPrice(trade.market_id, trade.outcome)]_vars

\* C36: the close of an exited position touches that position only: an open
\* row of the opposite side on the same (market_id, outcome) is left as it
\* was, and realized_pnl moves by the unrealized P&L of the closed position.
OppositeKey(pos) ==
    <<pos.market_id, pos.outcome, IF pos.side = "Buy" THEN "Sell" ELSE "Buy">>

C36_CloseTouchesOnePosition ==
    [][(ExitDryRun \/ ExitClose) =>
          LET pos == Head(exitq)
          IN  /\ realized_pnl' = realized_pnl + pos.unrealized_pnl
              /\ IsOpen(positions[OppositeKey(pos)]) =>
                     positions'[OppositeKey(pos)] = positions[OppositeKey(pos)]]_vars

\* C37: a halt is not permanent: when the loop is about to tick with a
\* drawdown at or over max_portfolio_drawdown in its portfolio state while
\* the equity at the market's prices (realized P&L plus the unrealized P&L of
\* the open positions at the current price) is back above
\* peak_equity * (1 - max_portfolio_drawdown), a later tick gets past the halt
\* check, refreshes the prices and goes on to the exits and the poll, unless
\* ctrl-c ends the run first.
MarketEquity ==
    PortfolioValue + realized_pnl
        + UnrealizedOf(RefreshPrices(positions, GetOpenPositions(positions)))

MarketDrawdown ==
    IF peak_equity > 0
    THEN (Max(peak_equity - MarketEquity, 0) * 10000) \div peak_equity
    ELSE 0

HaltedThoughRecovered ==
    /\ pc = "idle"
    /\ ~shutdown
    /\ now < MaxTicks * PollIntervalSecs
    /\ ShouldHaltTrading(BuildPortfolioState)
    /\ MarketDrawdown < MaxPortfolioDrawdown * 100

C38_AllowedWithinCashAndCap ==
    (EntryReturned /\ call.result.allowed)
        => /\ call.result.adjusted_size <= call.args.portfolio.cash_available
           /\ (ExistingExposure(call.args) + call.result.adjusted_size) * 100
                  <= call.args.portfolio.total_value * MaxSingleMarketExposure

\* C39: started with an empty book, the number of open positions never
\* exceeds max_concurrent_positions, also when several intents are processed
\* in one tick.
C39_OpenPositionsCapped ==
    call.fn = "book" => Cardinality(CapOpen(call)) <= MaxConcurrentPositions

====
